---------------------------- MODULE Spec2Model ----------------------------
(***************************************************************************)
(* Model of the Airbnb end-to-end automation (Django management command    *)
(* run_airbnb_automation and the six step modules it drives).              *)
(*                                                                         *)
(* Three specifications share the variables below:                         *)
(*   Spec         the command: handle(), _run_journey() and the six steps  *)
(*   SpecResolve  the selector resolution helpers of steps 1-4, each       *)
(*                applied to every page of a bounded family of pages       *)
(*   SpecStore    the ListingData table under save_listings and _persist   *)
(*                                                                         *)
(* The web page is the environment.  What a selector yields when it is     *)
(* probed is an "outcome"; a page maps the candidates of a selector list   *)
(* to outcomes.                                                            *)
(***************************************************************************)
EXTENDS Integers, Sequences, FiniteSets, TLC

VARIABLES
    pc,            \* control location of the command / of the harness
    fault,         \* "none", "error" (an Exception), "interrupt" (KeyboardInterrupt)
    exitStatus,    \* -1 while running, then the process exit status
    browserOpen,   \* the BrowserService context manager is entered and not exited
    started,       \* stages whose run() was called, in call order
    returned,      \* stages whose run() returned, in return order
    testing,       \* table "testing" (TestResult rows written by this run)
    listing_data,  \* table "listing_data" (ListingData rows)
    page_url,      \* page.url of the browser
    country,       \* _run_journey local: result of step 1
    s2_ok,         \* _run_journey local: result of step 2
    dates,         \* _run_journey local: result of step 3
    guests,        \* _run_journey local: result of step 4
    listings,      \* _run_journey local: result of step 5
    details,       \* _run_journey local: result of step 6
    listing,       \* Step06.run local: the listing chosen by random.choice
    lastPass,      \* the most recent selector resolution pass (site, attempts, result)
    extraction,    \* the most recent extraction routine (primary / secondary use)
    persistCalls,  \* the _persist calls made so far
    suggestion_data, \* table "suggestion_data"
    console_log,   \* table "console_log"
    network_log,   \* table "network_log"
    console_logs,  \* BrowserService.console_logs: console messages captured so far
    network_logs,  \* BrowserService.network_logs: responses captured so far
    exc,           \* text of the exception that is propagating or was raised again
    store,         \* environment: "up", or "down" when the database refuses every write
    batchCalls,    \* the batched save_* calls made so far, with the stages returned then
    degraded,      \* environment: aspects of the pages so far that were off nominal
    blank,         \* environment: blank[n] tells that the page of the n-th stage started
                   \* shows none of the elements that stage looks for
    lastCall,      \* the most recent call of a routine run on its own (routine, input,
                   \* output)
    decisions,     \* the random.choice / random.randint draws made so far, by the name
                   \* of the local that holds the value drawn
    summary,       \* _print_final_summary: the counts printed
    earlier        \* environment: the rows earlier runs left in table "testing", known
                   \* once the table is read as a whole

vars == << pc, fault, exitStatus, browserOpen, started, returned, testing,
           listing_data, page_url, country, s2_ok, dates, guests, listings, details,
           listing, lastPass, extraction, persistCalls, suggestion_data, console_log,
           network_log, console_logs, network_logs, exc, store, batchCalls, degraded,
           blank, lastCall, decisions, summary, earlier >>

Min(a, b) == IF a < b THEN a ELSE b
Max(a, b) == IF a > b THEN a ELSE b

(***************************************************************************)
(* Bounds of the model.                                                    *)
(***************************************************************************)
MaxMatching == 2   \* at most this many candidates of a selector list match anything
MaxInputs   == 1   \* at most this many <input type=text> elements on the page

(***************************************************************************)
(* Lengths of the selector lists (program data).                           *)
(***************************************************************************)
NPlaceholdersA  == 4   \* step01: placeholders of strategy A
NClickTargets   == 7   \* step01: click_targets of strategy B
NPlaceholdersB  == 3   \* step01: placeholders probed after a reveal click
NDateFieldSels  == 5   \* step03: _try_open_date_field selectors
NNextMonthSels  == 5   \* step03: _click_next_month selectors
NGuestFieldSels == 5   \* step04: _open_guest_picker selectors
NSteppers       == 4   \* step04: _STEPPER_INCREASE
NSearchSels     == 4   \* step04: _click_search selectors
AttemptFactor   == 5   \* step04: _add_guests makes target * 5 attempts

(***************************************************************************)
(* Outcomes of probing one selector.                                       *)
(*   "err"      the lookup or is_visible() raises                          *)
(*   "hidden"   is_visible() is False (absent, hidden or timed out)        *)
(*   "visible"  is_visible() is True (probe-only selectors)                *)
(*   "disabled" visible, is_enabled() False; click() waits and raises      *)
(*   "blocked"  visible and enabled, click() raises (covered, detached)    *)
(*   "ok"       visible and enabled, click() succeeds                      *)
(***************************************************************************)
ProbeOutcome == {"err", "hidden", "visible"}
ClickOutcome == {"err", "hidden", "disabled", "blocked", "ok"}

IsVisible(o) == o \in {"visible", "disabled", "blocked", "ok"}
IsEnabled(o) == o \in {"blocked", "ok"}
ClickSucceeds(o) == o = "ok"

\* One attempt of a resolution pass on candidate cand.
\*   visible    is_visible() returned True
\*   confirmed  is_enabled() was called and returned True
\*   clicked    click() was called on the element
\*   success    the attempt ended the pass with a result
\*   landed     the click went through
Attempt(cand, o, confirmed, clicked, success) ==
    [cand |-> cand, visible |-> IsVisible(o), enabled |-> IsEnabled(o),
     confirmed |-> confirmed, clicked |-> clicked, success |-> success,
     landed |-> clicked /\ ClickSucceeds(o)]

\* Pages over the candidates 1..n with at most MaxMatching candidates that
\* differ from dflt; those take their value in others.
SparsePages(n, others, dflt) ==
    UNION { { [i \in 1..n |-> IF i \in S THEN f[i] ELSE dflt] : f \in [S -> others] }
            : S \in { T \in SUBSET (1..n) : Cardinality(T) <= MaxMatching } }

\* Sequences over S of length at most n.
SeqsUpTo(S, n) == UNION { [1..k -> S] : k \in 0..n }

(***************************************************************************)
(* Single-phase click pass: the loop                                       *)
(*     for sel in selectors:                                               *)
(*         try:                                                            *)
(*             el = page.locator(sel).first                                *)
(*             if el.is_visible(...) [and el.is_enabled()]:                *)
(*                 el.click(); ...; return / break                         *)
(*         except Exception: pass                                          *)
(* shared by _try_open_date_field, _click_next_month (inner loop) and      *)
(* _click_search.  checkEnabled tells whether the condition includes       *)
(* is_enabled(); stopOnSuccess is the return / break after the click.      *)
(***************************************************************************)
RECURSIVE ClickPassFrom(_, _, _, _, _, _)
ClickPassFrom(n, page, checkEnabled, stopOnSuccess, i, acc) ==
    IF i > n THEN [attempts |-> acc, found |-> FALSE]
    ELSE LET o         == page[i]
             condition == IsVisible(o) /\ (checkEnabled => IsEnabled(o))
             confirmed == checkEnabled /\ IsVisible(o) /\ IsEnabled(o)
             ok        == condition /\ ClickSucceeds(o)
             a         == Attempt(i, o, confirmed, condition, ok)
         IN  IF ok /\ stopOnSuccess
             THEN [attempts |-> Append(acc, a), found |-> TRUE]
             ELSE ClickPassFrom(n, page, checkEnabled, stopOnSuccess, i + 1, Append(acc, a))

ClickPass(n, page, checkEnabled) == ClickPassFrom(n, page, checkEnabled, TRUE, 1, << >>)

\* The same loop with the return / break after the click left out.
ClickPassNoStop(n, page, checkEnabled) ==
    LET r == ClickPassFrom(n, page, checkEnabled, FALSE, 1, << >>)
    IN  [attempts |-> r.attempts, found |-> \E k \in 1..Len(r.attempts) : r.attempts[k].success]

PassRecord(site, r, count) ==
    [site |-> site, attempts |-> r.attempts, found |-> r.found, count |-> count]

NoPass == [site |-> "none", attempts |-> << >>, found |-> FALSE, count |-> 0]

(***************************************************************************)
(* Step 1: _activate_search_field.                                         *)
(*   page.a[i]         outcome of placeholder i of strategy A              *)
(*   page.b[i].o       outcome of click target i of strategy B             *)
(*   page.b[i].reveal  outcomes of the three placeholders probed after the *)
(*                     click on target i                                   *)
(*   page.c            outcomes of is_visible() on each input[type=text]   *)
(* Candidates are numbered through the three strategies.                   *)
(***************************************************************************)
RECURSIVE FirstVisible(_, _, _)
FirstVisible(n, page, i) ==
    IF i > n THEN 0
    ELSE IF IsVisible(page[i]) THEN i
    ELSE FirstVisible(n, page, i + 1)

RECURSIVE StrategyA(_, _, _)
StrategyA(page, i, acc) ==
    IF i > NPlaceholdersA THEN [attempts |-> acc, found |-> FALSE]
    ELSE LET o == page.a[i]
             a == Attempt(i, o, FALSE, FALSE, IsVisible(o))
         IN  IF IsVisible(o) THEN [attempts |-> Append(acc, a), found |-> TRUE]
             ELSE StrategyA(page, i + 1, Append(acc, a))

RECURSIVE StrategyB(_, _, _)
StrategyB(page, i, acc) ==
    IF i > NClickTargets THEN [attempts |-> acc, found |-> FALSE]
    ELSE LET o        == page.b[i].o
             revealed == FirstVisible(NPlaceholdersB, page.b[i].reveal, 1) > 0
             ok       == IsVisible(o) /\ ClickSucceeds(o) /\ revealed
             a        == Attempt(NPlaceholdersA + i, o, FALSE, IsVisible(o), ok)
         IN  IF ok THEN [attempts |-> Append(acc, a), found |-> TRUE]
             ELSE StrategyB(page, i + 1, Append(acc, a))

RECURSIVE StrategyC(_, _, _)
StrategyC(page, k, acc) ==
    IF k > Len(page.c) THEN [attempts |-> acc, found |-> FALSE]
    ELSE LET o == page.c[k]
             a == Attempt(NPlaceholdersA + NClickTargets + k, o, FALSE, FALSE, IsVisible(o))
         IN  IF o = "err" THEN [attempts |-> Append(acc, a), found |-> FALSE]
             ELSE IF IsVisible(o) THEN [attempts |-> Append(acc, a), found |-> TRUE]
             ELSE StrategyC(page, k + 1, Append(acc, a))

activate_search_field(page) ==
    LET ra == StrategyA(page, 1, << >>)
        rb == StrategyB(page, 1, ra.attempts)
        rc == StrategyC(page, 1, rb.attempts)
    IN  IF ra.found THEN PassRecord("activate_search_field", ra, 1)
        ELSE IF rb.found THEN PassRecord("activate_search_field", rb, 1)
        ELSE PassRecord("activate_search_field", rc, IF rc.found THEN 1 ELSE 0)

(***************************************************************************)
(* Step 3: _try_open_date_field and _click_next_month.                     *)
(***************************************************************************)
try_open_date_field(page) ==
    LET r == ClickPass(NDateFieldSels, page, FALSE)
    IN  PassRecord("try_open_date_field", r, IF r.found THEN 1 ELSE 0)

\* pages[k] is the page as the k-th iteration of the outer loop finds it.
RECURSIVE NextMonthFrom(_, _, _, _, _)
NextMonthFrom(count, pages, k, clicked, last) ==
    IF k > count THEN PassRecord("click_next_month", last, clicked)
    ELSE LET r == ClickPass(NNextMonthSels, pages[k], TRUE)
         IN  IF r.found THEN NextMonthFrom(count, pages, k + 1, clicked + 1, r)
             ELSE PassRecord("click_next_month", r, clicked)

click_next_month(count, pages) ==
    NextMonthFrom(count, pages, 1, 0, [attempts |-> << >>, found |-> FALSE])

(***************************************************************************)
(* Step 4: _open_guest_picker, _add_guests, _click_search.                 *)
(***************************************************************************)
\* page[i] = [o, stepper, adults]: the outcome of guest-field selector i and of
\* the two confirmation probes made after clicking it.
RECURSIVE GuestPickerFrom(_, _, _)
GuestPickerFrom(page, i, acc) ==
    IF i > NGuestFieldSels THEN [attempts |-> acc, found |-> FALSE]
    ELSE LET o  == page[i].o
             \* the confirmation probes raise into the enclosing try
             confirmedOpen == /\ page[i].stepper # "err"
                              /\ (IsVisible(page[i].stepper) \/ page[i].adults # "err")
             ok == IsVisible(o) /\ ClickSucceeds(o) /\ confirmedOpen
             a  == Attempt(i, o, FALSE, IsVisible(o), ok)
         IN  IF ok THEN [attempts |-> Append(acc, a), found |-> TRUE]
             ELSE GuestPickerFrom(page, i + 1, Append(acc, a))

open_guest_picker(page) ==
    LET r == GuestPickerFrom(page, 1, << >>)
    IN  PassRecord("open_guest_picker", r, IF r.found THEN 1 ELSE 0)

\* env[k] = [sel, o]: the stepper random.choice returns at attempt k and the
\* outcome of probing it.
\* The same loop counting every click() it calls.
RECURSIVE AddGuestsCountingCalls(_, _, _, _, _)
AddGuestsCountingCalls(target, env, k, success, acc) ==
    IF k > target * AttemptFactor \/ success >= target
    THEN [site |-> "add_guests", attempts |-> acc, found |-> success > 0, count |-> success]
    ELSE LET o         == env[k].o
             condition == IsVisible(o) /\ IsEnabled(o)
             ok        == condition /\ ClickSucceeds(o)
             a         == Attempt(env[k].sel, o, condition, condition, ok)
         IN  AddGuestsCountingCalls(target, env, k + 1,
                                    IF condition THEN success + 1 ELSE success, Append(acc, a))

RECURSIVE AddGuestsFrom(_, _, _, _, _)
AddGuestsFrom(target, env, k, success, acc) ==
    IF k > target * AttemptFactor \/ success >= target
    THEN [site |-> "add_guests", attempts |-> acc, found |-> success > 0, count |-> success]
    ELSE LET o         == env[k].o
             condition == IsVisible(o) /\ IsEnabled(o)
             ok        == condition /\ ClickSucceeds(o)
             a         == Attempt(env[k].sel, o, condition, condition, ok)
         IN  AddGuestsFrom(target, env, k + 1, IF ok THEN success + 1 ELSE success,
                           Append(acc, a))

add_guests(target, env) == AddGuestsFrom(target, env, 1, 0, << >>)

click_search_no_return(page) ==
    PassRecord("click_search", ClickPassNoStop(NSearchSels, page, FALSE), 0)

click_search(page) ==
    LET r == ClickPass(NSearchSels, page, FALSE)
    IN  PassRecord("click_search", r, IF r.found THEN 1 ELSE 0)

(***************************************************************************)
(* Text and URLs.  A string is a sequence of tokens; the empty sequence is *)
(* the empty string.  s[:n] is Trunc(s, n).                                *)
(***************************************************************************)
Trunc(s, n) == SubSeq(s, 1, Min(Len(s), n))

Origin   == "https://www.airbnb.com"
OtherOrigin == "https://other.example"
BareHost == "www.airbnb.com"
Slash    == "/"
RoomsSeg == "/rooms/"

\* 'airbnb.com' in url
HasAirbnb(u) == \E i \in 1..Len(u) : u[i] \in {Origin, BareHost}
\* url.startswith('http')
StartsWithHttp(u) == Len(u) > 0 /\ u[1] \in {Origin, OtherOrigin}
\* '/rooms/' in url
HasRooms(u) == \E i \in 1..Len(u) : u[i] = RoomsSeg
\* url.rstrip('/')
RECURSIVE RStrip(_)
RStrip(u) == IF Len(u) > 0 /\ u[Len(u)] = Slash THEN RStrip(SubSeq(u, 1, Len(u) - 1)) ELSE u

HomeUrl      == << Origin, Slash >>
RelRoom(n)   == << RoomsSeg, n >>   \* n: the room id, a string
AbsRoom(n)   == << Origin, RoomsSeg, n >>
BareRoom(n)  == << BareHost, RoomsSeg, n >>   \* the URL without its scheme

\* Column widths of the tables (models.py).
TitleMax == 512
PriceMax == 100
UrlMax   == 2048

(***************************************************************************)
(* Table listing_data: a sequence of rows, in insertion order.             *)
(***************************************************************************)
Row(title, price, image_url, listing_url) ==
    [title |-> title, price |-> price, image_url |-> image_url, listing_url |-> listing_url]

RECURSIVE SelectSeq2(_, _)
SelectSeq2(seq, keep) ==
    IF seq = << >> THEN << >>
    ELSE IF keep[1] THEN << Head(seq) >> \o SelectSeq2(Tail(seq), Tail(keep))
    ELSE SelectSeq2(Tail(seq), Tail(keep))

\* DatabaseService.save_listings: one row per item with a title, bulk-created.
save_listings(table, items) ==
    LET objs == [k \in 1..Len(items) |->
                    Row(Trunc(items[k].title, TitleMax), Trunc(items[k].price, PriceMax),
                        Trunc(items[k].image_url, UrlMax), Trunc(items[k].listing_url, UrlMax))]
        keep == [k \in 1..Len(items) |-> items[k].title # << >>]
    IN  table \o SelectSeq2(objs, keep)

Matching(table, key) == { i \in 1..Len(table) : table[i].listing_url = key }

\* QuerySet.update_or_create(listing_url=key, defaults=defaults):
\* get() by the key; no row: create; one row: set the defaults on it;
\* several rows: get() raises MultipleObjectsReturned.
update_or_create(table, key, defaults) ==
    LET m == Matching(table, key)
    IN  IF m = {}
        THEN [raised |-> FALSE,
              table  |-> Append(table, Row(defaults.title, defaults.price,
                                           defaults.image_url, key))]
        ELSE IF Cardinality(m) = 1
        THEN [raised |-> FALSE,
              table  |-> [i \in 1..Len(table) |->
                             IF i \in m
                             THEN Row(defaults.title, defaults.price, defaults.image_url,
                                      table[i].listing_url)
                             ELSE table[i]]]
        ELSE [raised |-> TRUE, table |-> table]

\* Step06ListingDetails._persist: the upsert, inside try / except Exception.
persist(table, result) ==
    IF result.title # << >>
    THEN update_or_create(table, Trunc(result.url, UrlMax),
             [title     |-> Trunc(result.title, TitleMax),
              price     |-> << >>,
              image_url |-> IF result.image_urls # << >>
                            THEN Trunc(result.image_urls[1], UrlMax) ELSE << >>]).table
    ELSE table

(***************************************************************************)
(* Initial values of the variables.                                        *)
(***************************************************************************)
AboutBlank   == << "about:blank" >>
NoDate       == 0
\* A detail record that is not the empty dictionary.
BlankDetails == [isEmpty |-> FALSE, title |-> << >>, subtitle |-> << >>,
                 image_urls |-> << >>, url |-> << >>]
\* {} as Step06ListingDetails.run returns it on its short circuit
NoDetails    == [isEmpty |-> TRUE, title |-> << >>, subtitle |-> << >>,
                 image_urls |-> << >>, url |-> << >>]
NoExc        == << >>
NoSummary    == [total |-> -1, passed |-> -1, failed |-> -1]
NoCall       == [routine |-> "none"]
NoListing    == [title |-> << >>, price |-> << >>, image_url |-> << >>, listing_url |-> << >>]
NoExtraction == [routine |-> "none", primary |-> 0, secondaryTried |-> FALSE,
                 returned |-> FALSE, items |-> 0]

InitLocals ==
    /\ fault = "none"
    /\ exc = NoExc
    /\ store = "up"
    /\ batchCalls = << >>
    /\ lastCall = NoCall
    /\ decisions = {}
    /\ summary = NoSummary
    /\ earlier = << >>
    /\ exitStatus = -1
    /\ browserOpen = FALSE
    /\ started = << >>
    /\ returned = << >>
    /\ testing = << >>
    /\ page_url = AboutBlank
    /\ country = << >>
    /\ s2_ok = FALSE
    /\ dates = [checkin |-> NoDate, checkout |-> NoDate]
    /\ guests = 0
    /\ listings = << >>
    /\ details = NoDetails
    /\ listing = NoListing
    /\ lastPass = NoPass
    /\ extraction = NoExtraction
    /\ persistCalls = << >>
    /\ suggestion_data = << >>
    /\ console_log = << >>
    /\ network_log = << >>
    /\ console_logs = << >>
    /\ network_logs = << >>
    /\ degraded = 0
    /\ blank = << >>

(***************************************************************************)
(* SpecResolve: every selector resolution helper of steps 1-4 applied to   *)
(* every page of its family.                                               *)
(***************************************************************************)
MinMonthClicks == 3    \* random.randint(3, 8)
MaxMonthClicks == 8
MinGuests      == 2    \* random.randint(2, 5)
MaxGuests      == 5
MaxPattern     == 2    \* bound: period of the stepper environment

ClickPages(n) == SparsePages(n, ClickOutcome \ {"hidden"}, "hidden")

\* Reveal probes after a click: nothing revealed, the first placeholder
\* revealed, or the first lookup raising and the second placeholder revealed.
NoReveal == [i \in 1..NPlaceholdersB |-> "hidden"]
RevealPages ==
    { NoReveal,
      [i \in 1..NPlaceholdersB |-> IF i = 1 THEN "visible" ELSE "hidden"],
      [i \in 1..NPlaceholdersB |-> IF i = 1 THEN "err" ELSE IF i = 2 THEN "visible" ELSE "hidden"] }

\* Either strategy A meets a matching placeholder, or it meets none and
\* strategies B and C run on what the page holds.
SearchFieldPages ==
    LET hid    == [o |-> "hidden", reveal |-> NoReveal]
        forB   == { [o |-> x, reveal |-> NoReveal] : x \in {"err", "disabled", "blocked"} }
                    \cup { [o |-> "ok", reveal |-> r] : r \in RevealPages }
        noA    == [i \in 1..NPlaceholdersA |-> "hidden"]
        noB    == [i \in 1..NClickTargets |-> hid]
    IN  { [a |-> pa, b |-> noB, c |-> << >>] :
            pa \in SparsePages(NPlaceholdersA, {"err", "visible"}, "hidden") }
        \cup
        { [a |-> noA, b |-> pb, c |-> c] :
            pb \in SparsePages(NClickTargets, forB, hid),
            c \in SeqsUpTo(ProbeOutcome, MaxInputs) }

GuestFieldPages ==
    LET hid    == [o |-> "hidden", stepper |-> "hidden", adults |-> "hidden"]
        others == { [o |-> x, stepper |-> "hidden", adults |-> "hidden"] :
                        x \in {"err", "disabled", "blocked"} }
                  \cup { [o |-> "ok", stepper |-> st, adults |-> ad] :
                        st \in ProbeOutcome, ad \in ProbeOutcome }
    IN  SparsePages(NGuestFieldSels, others, hid)

FirstOk(n) == [i \in 1..n |-> IF i = 1 THEN "ok" ELSE "hidden"]

\* The calendar answers the first j passes on its first selector, then shows p.
NextMonthPages(count) ==
    { [k \in 1..count |-> IF k <= j THEN FirstOk(NNextMonthSels) ELSE p] :
        j \in 0..count, p \in ClickPages(NNextMonthSels) }

\* The steppers answer periodically with the outcomes of pattern pat, and
\* random.choice walks round the stepper list from offset first.
GuestEnv(target, pat, first) ==
    [k \in 1..(target * AttemptFactor) |->
        [sel |-> ((k - 1 + first) % NSteppers) + 1, o |-> pat[((k - 1) % Len(pat)) + 1]]]

GuestEnvs(target) ==
    { GuestEnv(target, pat, first) :
        pat \in SeqsUpTo(ClickOutcome, MaxPattern) \ {<< >>}, first \in 0..(NSteppers - 1) }

InitResolve ==
    /\ pc = "resolve"
    /\ listing_data = << >>
    /\ InitLocals

Resolved(r) ==
    /\ pc' = "resolved"
    /\ lastPass' = r
    /\ UNCHANGED << fault, exc, exitStatus, browserOpen, started, returned, testing,
                    listing_data, page_url, country, s2_ok, dates, guests, listings, details,
                    listing, extraction, persistCalls, batchCalls, suggestion_data, console_log,
                    network_log, console_logs, network_logs, store, degraded, blank,
                    lastCall, decisions, summary, earlier >>

R_activate_search_field ==
    /\ pc = "resolve"
    /\ \E page \in SearchFieldPages : Resolved(activate_search_field(page))
R_try_open_date_field ==
    /\ pc = "resolve"
    /\ \E page \in ClickPages(NDateFieldSels) : Resolved(try_open_date_field(page))
R_click_next_month ==
    /\ pc = "resolve"
    /\ \E count \in MinMonthClicks..MaxMonthClicks :
           \E pages \in NextMonthPages(count) : Resolved(click_next_month(count, pages))
R_open_guest_picker ==
    /\ pc = "resolve"
    /\ \E page \in GuestFieldPages : Resolved(open_guest_picker(page))
R_add_guests ==
    /\ pc = "resolve"
    /\ \E target \in MinGuests..MaxGuests :
           \E env \in GuestEnvs(target) : Resolved(add_guests(target, env))
R_click_search ==
    /\ pc = "resolve"
    /\ \E page \in ClickPages(NSearchSels) : Resolved(click_search(page))

NextResolve ==
    \/ R_activate_search_field
    \/ R_try_open_date_field
    \/ R_click_next_month
    \/ R_open_guest_picker
    \/ R_add_guests
    \/ R_click_search

SpecResolve == InitResolve /\ [][NextResolve]_vars

(***************************************************************************)
(* SpecStore: the listing_data table under save_listings (step 5) and      *)
(* _persist (step 6), from every prior content of bounded size.            *)
(***************************************************************************)
MaxRows     == 2   \* bound: rows in the table before the calls
MaxItems    == 2   \* bound: items of one save_listings call
MaxPersist  == 2   \* bound: _persist calls

Title1 == << "Loft" >>
Title2 == << "Cabin" >>
Price1 == << "$", "120" >>
Image1 == << "https://a0.muscache.com", "/im/1.jpg" >>

StoreUrls   == { << >>, AbsRoom("1"), AbsRoom("2") }
StoreRows   == { Row(Title1, Price1, Image1, u) : u \in StoreUrls }
StoreItems  == { Row(t, Price1, Image1, u) : t \in {<< >>, Title1}, u \in StoreUrls }
\* The records handed to _persist (result.get('url', '') may be empty).
StoreResults ==
    { [isEmpty |-> FALSE, title |-> t, subtitle |-> << >>, image_urls |-> im, url |-> u] :
        t \in {<< >>, Title2}, im \in {<< >>, << Image1 >>}, u \in StoreUrls }

InitStore ==
    /\ pc = "store"
    /\ listing_data \in SeqsUpTo(StoreRows, MaxRows)
    /\ InitLocals

StoreFrame ==
    UNCHANGED << pc, fault, exc, exitStatus, browserOpen, started, returned, testing, page_url,
                 country, s2_ok, dates, guests, listings, details, listing, lastPass,
                 extraction, suggestion_data, console_log, network_log, console_logs,
                 network_logs, store, batchCalls, degraded, blank,
                 lastCall, decisions, summary, earlier >>

\* Step 5 stores a scrape (only before the detail records are persisted).
St_save_listings ==
    /\ pc = "store"
    /\ persistCalls = << >>
    /\ Len(listing_data) <= MaxRows
    /\ \E items \in SeqsUpTo(StoreItems, MaxItems) \ {<< >>} :
           listing_data' = save_listings(listing_data, items)
    /\ UNCHANGED persistCalls
    /\ StoreFrame

St_persist ==
    /\ pc = "store"
    /\ Len(persistCalls) < MaxPersist
    /\ \E result \in StoreResults :
           /\ listing_data' = persist(listing_data, result)
           /\ persistCalls' = Append(persistCalls, result)
    /\ StoreFrame

NextStore == St_save_listings \/ St_persist

SpecStore == InitStore /\ [][NextStore]_vars

(***************************************************************************)
(* Spec: the command.                                                      *)
(***************************************************************************)
TOP_20_COUNTRIES ==
    << << "U", "n", "i", "t", "e", "d", " ", "S", "t", "a", "t", "e", "s" >>,
       << "C", "h", "i", "n", "a" >>,
       << "I", "n", "d", "i", "a" >>,
       << "B", "r", "a", "z", "i", "l" >>,
       << "R", "u", "s", "s", "i", "a" >>,
       << "I", "n", "d", "o", "n", "e", "s", "i", "a" >>,
       << "P", "a", "k", "i", "s", "t", "a", "n" >>,
       << "B", "a", "n", "g", "l", "a", "d", "e", "s", "h" >>,
       << "M", "e", "x", "i", "c", "o" >>,
       << "E", "t", "h", "i", "o", "p", "i", "a" >>,
       << "J", "a", "p", "a", "n" >>,
       << "E", "g", "y", "p", "t" >>,
       << "P", "h", "i", "l", "i", "p", "p", "i", "n", "e", "s" >>,
       << "V", "i", "e", "t", "n", "a", "m" >>,
       << "I", "r", "a", "n" >>,
       << "T", "u", "r", "k", "e", "y" >>,
       << "G", "e", "r", "m", "a", "n", "y" >>,
       << "T", "h", "a", "i", "l", "a", "n", "d" >>,
       << "U", "n", "i", "t", "e", "d", " ", "K", "i", "n", "g", "d", "o", "m" >>,
       << "F", "r", "a", "n", "c", "e" >> >>

MaxCountries == 1   \* bound: random.choice draws among the first MaxCountries countries

\* A draw that is not one of the listed countries.
random_choice_unlisted(seq, k) == seq[k] \o << "?" >>

\* random.choice(seq), the draw being the k-th element.
random_choice(seq, k) == seq[k]
MaxDegraded  == 2   \* bound: off-nominal aspects of the pages met in one run
NStages      == 6

\* DatabaseService.save_result: one row appended to table "testing".
\* found is the part of the comment that tells the records of one test case apart.
save_result(table, test_case, url, passed, found) ==
    Append(table, [test_case |-> test_case, url |-> Trunc(url, UrlMax),
                   passed |-> passed, found |-> found])

RowsOf(table, test_case) == { i \in 1..Len(table) : table[i].test_case = test_case }

\* The test cases each stage writes (the titles are cut at their dash).
StageTestCases(n) ==
    CASE n = 1 -> {"Homepage Load Verification", "Search Field Click",
                   "Search Field Input"}
      [] n = 2 -> {"Auto-suggestion List Visibility", "Auto-suggestion Relevance Check",
                   "Google Auto Suggestion List Availability Test",
                   "Auto-suggestion Random Selection and Click"}
      [] n = 3 -> {"Date Picker Modal Open and Visibility Test",
                   "Refine Button Date Validation Test", "Date Selection"}
      [] n = 4 -> {"Guest Picker Open Verification", "Guest Count Display Verification",
                   "Search Button Click After Guest Selection"}
      [] n = 5 -> {"Search Results Page Load Verification", "Selected Dates in URL Validation",
                   "Selected Guest Count in URL Validation",
                   "Selected Dates and Guest Count in Page UI Confirmation",
                   "Listing Data Scraping"}
      [] n = 6 -> {"Listing Details Page Load", "Listing Title and Subtitle Capture",
                   "Listing Gallery Image URLs Collection"}

RowsOfStage(table, n) == { i \in 1..Len(table) : table[i].test_case \in StageTestCases(n) }

\* The locals that the f-strings of a record's should_be and found texts put
\* into the record, by test case.
Interpolated(test_case) ==
    CASE test_case = "Homepage Load Verification" -> {"current_url"}
      [] test_case = "Search Field Input" -> {"country"}
      [] test_case = "Auto-suggestion Relevance Check" -> {"search_query", "texts"}
      [] test_case = "Google Auto Suggestion List Availability Test" ->
             {"search_query", "texts"}
      [] test_case = "Refine Button Date Validation Test" -> {"num_clicks", "actual_clicks"}
      [] test_case = "Date Selection" -> {"checkin_date", "checkout_date"}
      [] test_case = "Guest Count Display Verification" -> {"total_guests", "display_text"}
      [] test_case = "Selected Dates in URL Validation" -> {"dates_in_url"}
      [] test_case = "Selected Guest Count in URL Validation" ->
             {"guest_count", "guests_in_url"}
      [] test_case = "Listing Data Scraping" -> {"listings"}
      [] test_case = "Listing Details Page Load" -> {"current_url"}
      [] test_case = "Listing Title and Subtitle Capture" -> {"title", "subtitle"}
      [] test_case = "Listing Gallery Image URLs Collection" -> {"image_urls"}
      [] OTHER -> {}

\* The locals each stage draws at random (random.choice, random.randint); the
\* option clicked in stage 2 is drawn and clicked without being bound to a name.
DrawnBy(n) ==
    CASE n = 1 -> {"country"}
      [] n = 2 -> {"option"}
      [] n = 3 -> {"num_clicks"}
      [] n = 4 -> {"target", "sel"}
      [] n = 6 -> {"listing", "pick"}
      [] OTHER -> {}

journeyLocals == << country, s2_ok, dates, guests, listings, details, listing >>
observers     == << lastPass, extraction, persistCalls, batchCalls >>
logTables     == << console_log, network_log >>
buffers       == << console_logs, network_logs >>

\* What no step module changes.
StageFrame ==
    UNCHANGED << exitStatus, browserOpen, started, blank, logTables, store, lastCall,
                 decisions, summary, earlier >>

\* The same for the step actions that draw at random.
DrawingFrame ==
    UNCHANGED << exitStatus, browserOpen, started, blank, logTables, store, lastCall,
                 summary, earlier >>

\* The environment spends c of its budget of off-nominal aspects.
Cost(c) ==
    /\ degraded + c <= MaxDegraded
    /\ degraded' = degraded + c

\* The page of the stage that is running is blank.
Blank == blank # << >> /\ blank[Len(blank)]

\* The pages a probe may meet: the nominal one for free, another one for one
\* unit; on a blank page only the page on which nothing matches.
Choices(nominal, alternatives, nothing) ==
    IF Blank THEN { [page |-> nothing, cost |-> 0] }
    ELSE { [page |-> nominal, cost |-> 0] }
         \cup { [page |-> p, cost |-> 1] : p \in alternatives \ {nominal} }

InitCommand ==
    /\ pc = "start"
    /\ listing_data = << >>
    /\ InitLocals

\* handle(), lines 98-113: the session start record, then the browser is entered.
HandleStart ==
    /\ pc = "start"
    /\ testing' = save_result(testing, "Automation Session Start", HomeUrl, TRUE, "started")
    /\ browserOpen' = TRUE
    /\ pc' = "journey"
    /\ UNCHANGED << fault, exc, exitStatus, started, returned, listing_data, suggestion_data,
                    page_url, journeyLocals, observers, logTables, store, buffers, degraded, blank,
                    lastCall, decisions, summary, earlier >>

\* _run_journey: the stage called after `done` stages have returned.
NextStageRetrying(done) == IF done = 2 /\ ~s2_ok THEN 2 ELSE done + 1

\* A journey that leaves out the results stage when no guest was added.
NextStageSkippingResults(done) == IF done = 4 /\ guests = 0 THEN 6 ELSE done + 1

NextStage(done) == done + 1

EntryPoint(n) ==
    CASE n = 1 -> "s1_land"
      [] n = 2 -> "s2_wait"
      [] n = 3 -> "s3_picker"
      [] n = 4 -> "s4_open"
      [] n = 5 -> "s5_verify"
      [] n = 6 -> "s6_begin"

\* _run_journey calls the next stage's run(); the environment decides whether
\* the page holds anything this stage looks for.
CallStage ==
    /\ pc = "journey"
    /\ Len(returned) < NStages
    /\ started' = Append(started, NextStage(Len(returned)))
    /\ pc' = EntryPoint(NextStage(Len(returned)))
    /\ \E b \in BOOLEAN : blank' = Append(blank, b) /\ Cost(IF b THEN 1 ELSE 0)
    /\ UNCHANGED << fault, exc, exitStatus, browserOpen, returned, testing, listing_data,
                    suggestion_data, page_url, journeyLocals, observers, logTables, store, buffers,
                    lastCall, decisions, summary, earlier >>

\* The texts of the exceptions met: str(exc) of a Playwright error names the
\* call that failed, and with its call log is longer than FaultTextMax.
FaultTextMax == 250
LongText(call)  == << call >> \o [i \in 1..FaultTextMax |-> "."]
FaultTexts(call) == { << call >>, LongText(call) }
KeyboardInterruptText == << "KeyboardInterrupt" >>

\* An exception leaves the stage and propagates out of _run_journey.
Raises(text) ==
    /\ fault' = "error"
    /\ exc' = text
    /\ pc' = "raised"

\* A stage's run() returns to _run_journey.
Returns(n) ==
    /\ returned' = Append(returned, n)
    /\ pc' = "journey"

\* A batched save_* call is noted with the stages that had returned by then.
Batch(op) == [op |-> op, returned |-> Len(returned)]

\* Ctrl+C while the browser is open: KeyboardInterrupt is raised in the with
\* block (in a stage, between two stages or after the last one).
KeyboardInterrupt ==
    /\ browserOpen
    /\ pc \notin {"raised", "done"}
    /\ Cost(1)
    /\ fault' = "interrupt"
    /\ exc' = KeyboardInterruptText
    /\ pc' = "raised"
    /\ UNCHANGED << exitStatus, browserOpen, started, returned, testing, listing_data,
                    suggestion_data, page_url, journeyLocals, observers, logTables, store,
                    buffers, blank, lastCall, decisions, summary, earlier >>

\* BrowserService.__exit__: context, browser and Playwright are closed (the
\* value of browserOpen after it).
browser_exit_skipped(open) == open

browser_exit(open) == FALSE

\* The clause of handle() that receives what left the with block.
HandlerOf(f) ==
    CASE f = "none"      -> "return"
      [] f = "error"     -> "except_exception"
      [] f = "interrupt" -> "except_interrupt"

\* handle(), lines 111-113: the with block is left, by its end or by an
\* exception, and __exit__ runs before anything else.
BrowserExit ==
    /\ pc \in {"raised", "summary"}
    /\ browserOpen
    /\ browserOpen' = browser_exit(browserOpen)
    /\ pc' = HandlerOf(fault)
    /\ UNCHANGED << fault, exc, exitStatus, started, returned, testing, listing_data,
                    suggestion_data, page_url, journeyLocals, observers, logTables, store,
                    buffers, degraded, blank, lastCall, decisions, summary, earlier >>

\* found of the crash record: f'Automation crashed: {str(exc)[:250]}'
crash_found_whole(text) == << "Automation crashed: " >> \o text

crash_found(text) == << "Automation crashed: " >> \o Trunc(text, FaultTextMax)

\* found of the interrupt record
InterruptFound == << "Keyboard interrupt" >>

\* The rows the KeyboardInterrupt clause writes.
interrupt_rows_none(table) == table

interrupt_rows(table) ==
    save_result(table, "Automation Session End", HomeUrl, FALSE, InterruptFound)

\* handle(), lines 125-135: the failing end record is written and the
\* exception is raised again: it leaves handle().
ExceptException ==
    /\ pc = "except_exception"
    /\ store = "up"
    /\ testing' = save_result(testing, "Automation Session End", HomeUrl, FALSE,
                              crash_found(exc))
    /\ exitStatus' = 1
    /\ pc' = "done"
    /\ UNCHANGED << fault, exc, browserOpen, started, returned, listing_data, suggestion_data,
                    page_url, journeyLocals, observers, logTables, store, buffers, degraded,
                    blank, lastCall, decisions, summary, earlier >>

\* handle(), lines 115-123: the failing end record is written and handle()
\* returns.
ExceptKeyboardInterrupt ==
    /\ pc = "except_interrupt"
    /\ store = "up"
    /\ testing' = interrupt_rows(testing)
    /\ exitStatus' = 0
    /\ pc' = "done"
    /\ UNCHANGED << fault, exc, browserOpen, started, returned, listing_data, suggestion_data,
                    page_url, journeyLocals, observers, logTables, store, buffers, degraded,
                    blank, lastCall, decisions, summary, earlier >>

(***************************************************************************)
(* Probe-only passes and the pages of the command.                         *)
(***************************************************************************)
\* for sel in selectors: if <sel is visible>: return True  -- a lookup that
\* raises counts as not visible (wait_for_selector, or the try around it).
RECURSIVE ProbePassFrom(_, _, _, _)
ProbePassFrom(n, page, i, acc) ==
    IF i > n THEN [attempts |-> acc, found |-> FALSE]
    ELSE LET a == Attempt(i, page[i], FALSE, FALSE, IsVisible(page[i]))
         IN  IF IsVisible(page[i]) THEN [attempts |-> Append(acc, a), found |-> TRUE]
             ELSE ProbePassFrom(n, page, i + 1, Append(acc, a))

ProbePass(site, n, page) ==
    LET r == ProbePassFrom(n, page, 1, << >>)
    IN  PassRecord(site, r, IF r.found THEN 1 ELSE 0)

Uniform(n, o)    == [i \in 1..n |-> o]
SecondOnly(n, o) == [i \in 1..n |-> IF i = 2 THEN o ELSE "hidden"]

\* Off-nominal pages of a probe-only list and of a click list.
ProbeAlternatives(n) == { Uniform(n, "hidden"), Uniform(n, "err"), SecondOnly(n, "visible") }
ClickAlternatives(n) ==
    { Uniform(n, o) : o \in ClickOutcome \ {"ok"} } \cup { SecondOnly(n, "ok") }

(***************************************************************************)
(* Text: a text is a sequence of one-character strings.                    *)
(***************************************************************************)
UpperCase == << "A", "B", "C", "D", "E", "F", "G", "H", "I", "J", "K", "L", "M",
                "N", "O", "P", "Q", "R", "S", "T", "U", "V", "W", "X", "Y", "Z" >>
LowerCase == << "a", "b", "c", "d", "e", "f", "g", "h", "i", "j", "k", "l", "m",
                "n", "o", "p", "q", "r", "s", "t", "u", "v", "w", "x", "y", "z" >>
WhiteSpace == { " ", "\n" }

\* str.lower()
LowerChar(c) ==
    IF \E i \in 1..Len(UpperCase) : UpperCase[i] = c
    THEN LowerCase[CHOOSE i \in 1..Len(UpperCase) : UpperCase[i] = c]
    ELSE c
Lower(t) == [i \in 1..Len(t) |-> LowerChar(t[i])]

\* str.upper()
UpperChar(c) ==
    IF \E i \in 1..Len(LowerCase) : LowerCase[i] = c
    THEN UpperCase[CHOOSE i \in 1..Len(LowerCase) : LowerCase[i] = c]
    ELSE c
Upper(t) == [i \in 1..Len(t) |-> UpperChar(t[i])]

\* The HTTP methods the tables accept (_VALID_METHODS), as texts.
GET     == << "G", "E", "T" >>
POST    == << "P", "O", "S", "T" >>
PUT     == << "P", "U", "T" >>
DELETE  == << "D", "E", "L", "E", "T", "E" >>
PATCH   == << "P", "A", "T", "C", "H" >>
OPTIONS == << "O", "P", "T", "I", "O", "N", "S" >>
ValidMethods == { GET, POST, PUT, DELETE, PATCH, OPTIONS }

(***************************************************************************)
(* BrowserService: navigation and the event listeners.                     *)
(***************************************************************************)
OtherHome == << OtherOrigin, Slash >>

\* url.startswith('data:') or url.startswith('blob:')
IsDataOrBlob(url) == url # << >> /\ url[1] \in {"data:", "blob:"}

\* _capture_network that keeps the whole URL.
capture_network_whole(logs, url, method) ==
    IF IsDataOrBlob(url) THEN logs
    ELSE Append(logs, [url |-> url,
                       method |-> IF Upper(method) \in ValidMethods THEN Upper(method)
                                  ELSE GET,
                       status_code |-> 200, resource_type |-> << "document" >>])

\* _capture_network: the response is appended unless its URL is data: or blob:;
\* the method is upper-cased and replaced by GET when it is not a valid one.
capture_network(logs, url, method) ==
    IF IsDataOrBlob(url) THEN logs
    ELSE Append(logs, [url |-> Trunc(url, UrlMax),
                       method |-> IF Upper(method) \in ValidMethods THEN Upper(method)
                                  ELSE GET,
                       status_code |-> 200, resource_type |-> << "document" >>])

\* _capture_console with ERROR for the types it does not know.
capture_console_error_default(logs, type, text) ==
    Append(logs, [level |-> CASE type \in {"log", "info"} -> "INFO"
                              [] type = "warning" -> "WARNING"
                              [] type = "debug" -> "DEBUG"
                              [] OTHER -> "ERROR",
                  message |-> Trunc(text, 2000), source |-> << >>])

\* _capture_console: msg.type mapped to a level, INFO by default.
capture_console(logs, type, text) ==
    Append(logs, [level |-> CASE type \in {"log", "info"} -> "INFO"
                              [] type = "warning" -> "WARNING"
                              [] type = "error" -> "ERROR"
                              [] type = "debug" -> "DEBUG"
                              [] OTHER -> "INFO",
                  message |-> Trunc(text, 2000), source |-> << >>])

\* BrowserService.navigate(target): nothing is done when the page is already at
\* target (trailing slashes apart); otherwise page.goto raises, lands on target
\* or lands on one of elsewhere.
navigate(target, elsewhere) ==
    IF RStrip(page_url) # << >> /\ RStrip(page_url) = RStrip(target)
    THEN { [raised |-> FALSE, went |-> FALSE, url |-> page_url, cost |-> 0] }
    ELSE { [raised |-> TRUE, went |-> TRUE, url |-> page_url, cost |-> 1],
           [raised |-> FALSE, went |-> TRUE, url |-> target, cost |-> 0] }
         \cup { [raised |-> FALSE, went |-> TRUE, url |-> u, cost |-> 1] :
                    u \in elsewhere \ {target} }

(***************************************************************************)
(* Step 1: Step01LandingAndSearch.run                                      *)
(***************************************************************************)
Revealing == [i \in 1..NPlaceholdersB |-> IF i = 1 THEN "visible" ELSE "hidden"]

SearchNominal ==
    [a |-> Uniform(NPlaceholdersA, "visible"),
     b |-> Uniform(NClickTargets, [o |-> "hidden", reveal |-> NoReveal]), c |-> << >>]
SearchNothing ==
    [a |-> Uniform(NPlaceholdersA, "hidden"),
     b |-> Uniform(NClickTargets, [o |-> "hidden", reveal |-> NoReveal]), c |-> << >>]
SearchAlternatives ==
    { [a |-> Uniform(NPlaceholdersA, "hidden"), b |-> Uniform(NClickTargets, t), c |-> c] :
        t \in { [o |-> "hidden",  reveal |-> NoReveal],
                [o |-> "blocked", reveal |-> NoReveal],
                [o |-> "ok",      reveal |-> NoReveal],
                [o |-> "ok",      reveal |-> Revealing] },
        c \in { << >>, << "visible" >> } }

\* lines 43-72: navigate, clear cookies, dismiss popups, homepage check, country.
S1_Land ==
    /\ pc = "s1_land"
    /\ store = "up"
    /\ \E g \in navigate(HomeUrl, {OtherHome}), k \in 1..MaxCountries, msgs \in 0..1 :
         IF g.raised
         THEN /\ \E text \in FaultTexts("goto") : Raises(text)
              /\ Cost(g.cost)
              /\ UNCHANGED << testing, page_url, country, buffers, decisions, summary, earlier >>
         ELSE /\ Cost(g.cost + msgs)
              /\ page_url' = g.url
              /\ network_logs' = IF g.went THEN capture_network(network_logs, g.url, GET)
                                 ELSE network_logs
              /\ console_logs' = IF msgs = 1
                                 THEN capture_console(console_logs, "error", << "m" >>)
                                 ELSE console_logs
              /\ testing' = save_result(testing, "Homepage Load Verification", g.url,
                                        HasAirbnb(g.url), "loaded")
              /\ country' = random_choice(TOP_20_COUNTRIES, k)
              /\ decisions' = decisions \cup {"country"}
              /\ pc' = "s1_search"
              /\ UNCHANGED << fault, exc >>
    /\ UNCHANGED << returned, listing_data, suggestion_data, s2_ok, dates, guests, listings,
                    details, listing, observers >>
    /\ DrawingFrame

\* lines 74-85: the search field is resolved; without it the stage returns.
S1_ActivateSearchField ==
    /\ pc = "s1_search"
    /\ \E ch \in Choices(SearchNominal, SearchAlternatives, SearchNothing) :
         LET r == activate_search_field(ch.page)
         IN  /\ Cost(ch.cost)
             /\ lastPass' = r
             /\ IF r.found
                THEN /\ pc' = "s1_type"
                     /\ UNCHANGED << testing, returned >>
                ELSE /\ testing' = save_result(testing, "Search Field Click", page_url, FALSE,
                                               "no search input")
                     /\ Returns(1)
    /\ UNCHANGED << fault, exc, listing_data, suggestion_data, page_url, journeyLocals,
                    extraction, persistCalls, batchCalls, buffers >>
    /\ StageFrame

\* lines 88-100: type_like_human clicks the input and types; neither is guarded.
S1_Type ==
    /\ pc = "s1_type"
    /\ \/ /\ \E text \in FaultTexts("type") : Raises(text)
          /\ Cost(1)
          /\ UNCHANGED << testing, returned >>
       \/ /\ testing' = save_result(testing, "Search Field Input", page_url, TRUE, "typed")
          /\ Returns(1)
          /\ Cost(0)
          /\ UNCHANGED << fault, exc >>
    /\ UNCHANGED << listing_data, suggestion_data, page_url, journeyLocals, observers, buffers >>
    /\ StageFrame

(***************************************************************************)
(* Text: strip, split and search.                                          *)
(***************************************************************************)
\* str.strip()
RECURSIVE LStrip(_)
LStrip(t) == IF t # << >> /\ Head(t) \in WhiteSpace THEN LStrip(Tail(t)) ELSE t
RECURSIVE RStripText(_)
RStripText(t) ==
    IF t # << >> /\ t[Len(t)] \in WhiteSpace THEN RStripText(SubSeq(t, 1, Len(t) - 1)) ELSE t
Strip(t) == RStripText(LStrip(t))

\* str.replace('\n', ' ')
ReplaceNewlines(t) == [i \in 1..Len(t) |-> IF t[i] = "\n" THEN " " ELSE t[i]]

\* str.split(): the maximal runs of non-whitespace characters.
RECURSIVE SplitFrom(_, _, _)
SplitFrom(t, word, acc) ==
    IF t = << >> THEN (IF word = << >> THEN acc ELSE Append(acc, word))
    ELSE IF Head(t) \in WhiteSpace
         THEN SplitFrom(Tail(t), << >>, IF word = << >> THEN acc ELSE Append(acc, word))
         ELSE SplitFrom(Tail(t), Append(word, Head(t)), acc)
Split(t) == SplitFrom(t, << >>, << >>)

\* word in text
Contains(text, word) ==
    \E i \in 0..(Len(text) - Len(word)) : SubSeq(text, i + 1, i + Len(word)) = word

(***************************************************************************)
(* Step 2: Step02AutoSuggestion.run                                        *)
(***************************************************************************)
NDropdownSels   == 3
NSuggestionSels == 3
NIconSels       == 3
SuggestionMax   == 200
SuggestionTextMax  == 512
SuggestionQueryMax == 255

Paris == << "P", "a", "r", "i", "s" >>

\* _collect_suggestion_texts.  page[i] = [err, items]: whether the lookup of
\* selector i raises, and the inner texts of the elements it matches.
harvest(items) ==
    LET t(k)  == ReplaceNewlines(Strip(items[k]))
        texts == [k \in 1..Len(items) |-> Trunc(t(k), SuggestionMax)]
        keep  == [k \in 1..Len(items) |-> t(k) # << >>]
    IN  SelectSeq2(texts, keep)

RECURSIVE CollectFrom(_, _, _)
CollectFrom(page, i, primary) ==
    IF i > NSuggestionSels
    THEN [texts |-> << >>, tried |-> NSuggestionSels, primary |-> primary]
    ELSE LET texts == IF page[i].err THEN << >> ELSE harvest(page[i].items)
             first == IF i = 1 THEN Len(texts) ELSE primary
         IN  IF texts # << >> THEN [texts |-> texts, tried |-> i, primary |-> first]
             ELSE CollectFrom(page, i + 1, first)

collect_suggestion_texts(page) == CollectFrom(page, 1, 0)

\* run(), lines 54-58
relevant_case_sensitive(search_query, texts) ==
    LET words == Split(search_query)
    IN  \E k \in 1..Len(texts) : \E w \in 1..Len(words) : Contains(texts[k], words[w])

relevant(search_query, texts) ==
    LET words == Split(Lower(search_query))
    IN  \E k \in 1..Len(texts) : \E w \in 1..Len(words) : Contains(Lower(texts[k]), words[w])

\* DatabaseService.save_suggestions
save_suggestions(table, texts, query) ==
    LET objs == [k \in 1..Len(texts) |->
                    [text |-> Trunc(texts[k], SuggestionTextMax),
                     search_query |-> Trunc(query, SuggestionQueryMax)]]
        keep == [k \in 1..Len(texts) |-> Strip(texts[k]) # << >>]
    IN  table \o SelectSeq2(objs, keep)

\* _click_random_suggestion.  options: "err" (the lookup raises), "none", "some";
\* click: whether the click on the chosen option succeeds; first: whether the
\* click on the first option (the fallback) succeeds.
click_random_suggestion(p) ==
    IF p.options = "none" THEN FALSE
    ELSE IF p.options = "some" /\ p.click THEN TRUE
    ELSE p.first

Options(texts) ==
    LET sel(items) == [err |-> FALSE, items |-> items]
    IN  << sel(texts), sel(texts), sel(<< >>) >>
OptionsNothing == Uniform(NSuggestionSels, [err |-> FALSE, items |-> << >>])
OptionsAlternatives(query) ==
    { Options(<< Paris >>), Options(<< query, Paris >>), Options(<< << " " >> >>),
      OptionsNothing,
      << [err |-> TRUE, items |-> << >>], [err |-> FALSE, items |-> << query >>],
         [err |-> FALSE, items |-> << >>] >>,
      << [err |-> FALSE, items |-> << >>], [err |-> FALSE, items |-> << >>],
         [err |-> FALSE, items |-> << query >>] >> }

ClickNominal == [options |-> "some", click |-> TRUE, first |-> TRUE]
ClickNothing == [options |-> "none", click |-> FALSE, first |-> FALSE]
ClickRandomAlternatives ==
    { ClickNothing,
      [options |-> "some", click |-> FALSE, first |-> TRUE],
      [options |-> "some", click |-> FALSE, first |-> FALSE],
      [options |-> "err",  click |-> FALSE, first |-> TRUE] }

\* lines 31-47: the dropdown is waited for; without it the stage returns False.
S2_Wait ==
    /\ pc = "s2_wait"
    /\ store = "up"
    /\ \E ch \in Choices(Uniform(NDropdownSels, "visible"), ProbeAlternatives(NDropdownSels),
                         Uniform(NDropdownSels, "hidden")) :
         LET r == ProbePass("wait_for_dropdown", NDropdownSels, ch.page)
         IN  /\ Cost(ch.cost)
             /\ lastPass' = r
             /\ testing' = save_result(testing, "Auto-suggestion List Visibility", page_url,
                                       r.found, IF r.found THEN "appeared" ELSE "absent")
             /\ IF r.found
                THEN pc' = "s2_collect" /\ UNCHANGED << returned, s2_ok >>
                ELSE Returns(2) /\ s2_ok' = FALSE
    /\ UNCHANGED << fault, exc, listing_data, suggestion_data, page_url, country, dates, guests,
                    listings, details, listing, extraction, persistCalls, batchCalls, buffers >>
    /\ StageFrame

\* lines 49-83: harvest, relevance record, icon record, suggestions stored.
S2_Collect ==
    /\ pc = "s2_collect"
    /\ \E ch \in Choices(Options(<< country >>), OptionsAlternatives(country), OptionsNothing),
          ic \in Choices(Uniform(NIconSels, "visible"), ProbeAlternatives(NIconSels),
                         Uniform(NIconSels, "hidden")) :
         LET c     == collect_suggestion_texts(ch.page)
             icons == ProbePass("check_map_icons", NIconSels, ic.page)
             t1    == save_result(testing, "Auto-suggestion Relevance Check", page_url,
                                  relevant(country, c.texts), "suggestions")
         IN  /\ Cost(ch.cost + ic.cost)
             /\ extraction' = [routine |-> "collect_suggestion_texts", primary |-> c.primary,
                               secondaryTried |-> c.tried > 1, returned |-> TRUE,
                               items |-> Len(c.texts)]
             /\ lastPass' = icons
             /\ testing' = save_result(t1, "Google Auto Suggestion List Availability Test",
                                       page_url, icons.found, "suggested items")
             /\ suggestion_data' = save_suggestions(suggestion_data, c.texts, country)
    /\ batchCalls' = Append(batchCalls, Batch("save_suggestions"))
    /\ pc' = "s2_click"
    /\ UNCHANGED << fault, exc, returned, listing_data, page_url, journeyLocals, persistCalls,
                    buffers >>
    /\ StageFrame

\* lines 85-98: a random suggestion is clicked.
S2_Click ==
    /\ pc = "s2_click"
    /\ \E ch \in Choices(ClickNominal, ClickRandomAlternatives, ClickNothing) :
         LET clicked == click_random_suggestion(ch.page)
         IN  /\ Cost(ch.cost)
             /\ testing' = save_result(testing, "Auto-suggestion Random Selection and Click",
                                       page_url, clicked,
                                       IF clicked THEN "clicked" ELSE "not clicked")
             /\ s2_ok' = clicked
             /\ decisions' = IF ch.page.options = "some"
                              THEN decisions \cup {"option"} ELSE decisions
    /\ Returns(2)
    /\ UNCHANGED << fault, exc, listing_data, suggestion_data, page_url, country, dates, guests,
                    listings, details, listing, observers, buffers >>
    /\ DrawingFrame

(***************************************************************************)
(* Step 3: Step03DatePicker.run.  dates holds self.checkin_date and        *)
(* self.checkout_date, which run() returns as they are.                    *)
(***************************************************************************)
NPickerSels == 4    \* three CSS selectors and the XPath of the year heading
NDaySels    == 2
MaxDays     == 12   \* bound: available days in one calendar view

DaysFrom(first, n) == [i \in 1..n |-> first + i - 1]

\* _get_available_days.  page[i] = [err, days]: whether the lookup of selector
\* i raises, and the dates of the enabled and visible day buttons it matches.
RECURSIVE AvailableFrom(_, _)
AvailableFrom(page, i) ==
    IF i > NDaySels THEN << >>
    ELSE IF ~page[i].err /\ page[i].days # << >> THEN page[i].days
    ELSE AvailableFrom(page, i + 1)

get_available_days(page) == AvailableFrom(page, 1)

\* idx of _pick_day (0-based, as in the source).
PickIndex(n, is_checkin) ==
    IF is_checkin THEN Max(0, n \div 4) ELSE Min((n \div 4) + 7, n - 1)

\* The date text of a day button whose attributes and inner text are empty.
EmptyDate == -1

\* _pick_day storing the date text before the click is made.
pick_day_stored_before_click(page, is_checkin, click) ==
    LET days == get_available_days(page)
    IN  IF days = << >> THEN NoDate ELSE days[PickIndex(Len(days), is_checkin) + 1]

\* _pick_day: the value returned.  click: nothing in the try block (the reads
\* of the date text, then day.click()) raises.
pick_day_ok(page, click) == get_available_days(page) # << >> /\ click

\* _pick_day: the date stored, NoDate when none is.  click: day.click() succeeds.
pick_day(page, is_checkin, click) ==
    LET days == get_available_days(page)
    IN  IF days = << >> THEN NoDate
        ELSE IF click THEN days[PickIndex(Len(days), is_checkin) + 1]
        ELSE NoDate

\* The date-selection verdict of a stage that only asks the two picks to agree.
SamePick(ci_ok, co_ok) == ci_ok <=> co_ok

\* line 79: passed = ci_ok and co_ok
BothPicked(ci_ok, co_ok) == ci_ok /\ co_ok

DayPage(days)  == [sels |-> Uniform(NDaySels, [err |-> FALSE, days |-> days]), click |-> TRUE]
DayNothing     == DayPage(<< >>)
DayAlternatives(days) ==
    { DayNothing,
      DayPage(DaysFrom(days[1], 1)),
      [sels |-> Uniform(NDaySels, [err |-> FALSE, days |-> days]), click |-> FALSE],
      [sels |-> << [err |-> TRUE, days |-> << >>], [err |-> FALSE, days |-> days] >>,
       click |-> TRUE],
      [sels |-> << [err |-> FALSE, days |-> << >>],
                   [err |-> FALSE, days |-> DaysFrom(days[1], 1)] >>, click |-> TRUE] }

\* The calendar answers the first j passes on every selector, then shows p.
MonthPages(count, j, p) ==
    [k \in 1..count |-> IF k <= j THEN Uniform(NNextMonthSels, "ok") ELSE p]
MonthAlternatives(count) ==
    { MonthPages(count, j, Uniform(NNextMonthSels, o)) :
        j \in 0..1, o \in {"hidden", "disabled", "blocked"} }
    \cup { MonthPages(count, 0, SecondOnly(NNextMonthSels, "ok")) }

\* lines 35-50: is the calendar open?
S3_Picker ==
    /\ pc = "s3_picker"
    /\ store = "up"
    /\ \E ch \in Choices(Uniform(NPickerSels, "visible"), ProbeAlternatives(NPickerSels),
                         Uniform(NPickerSels, "hidden")) :
         LET r == ProbePass("wait_for_picker", NPickerSels, ch.page)
         IN  /\ Cost(ch.cost)
             /\ lastPass' = r
             /\ testing' = save_result(testing, "Date Picker Modal Open and Visibility Test",
                                       page_url, r.found,
                                       IF r.found THEN "visible" ELSE "not open")
             /\ pc' = IF r.found THEN "s3_next" ELSE "s3_open"
    /\ UNCHANGED << fault, exc, returned, listing_data, suggestion_data, page_url, journeyLocals,
                    extraction, persistCalls, batchCalls, buffers >>
    /\ StageFrame

\* line 51: the date field is clicked to force the calendar open.
S3_TryOpenDateField ==
    /\ pc = "s3_open"
    /\ \E ch \in Choices(Uniform(NDateFieldSels, "ok"), ClickAlternatives(NDateFieldSels),
                         Uniform(NDateFieldSels, "hidden")) :
         /\ Cost(ch.cost)
         /\ lastPass' = try_open_date_field(ch.page)
    /\ pc' = "s3_again"
    /\ UNCHANGED << fault, exc, returned, testing, listing_data, suggestion_data, page_url,
                    journeyLocals, extraction, persistCalls, batchCalls, buffers >>
    /\ StageFrame

\* line 53: the calendar is probed again; the answer is not used.
S3_PickerAgain ==
    /\ pc = "s3_again"
    /\ \E ch \in Choices(Uniform(NPickerSels, "visible"), ProbeAlternatives(NPickerSels),
                         Uniform(NPickerSels, "hidden")) :
         /\ Cost(ch.cost)
         /\ lastPass' = ProbePass("wait_for_picker", NPickerSels, ch.page)
    /\ pc' = "s3_next"
    /\ UNCHANGED << fault, exc, returned, testing, listing_data, suggestion_data, page_url,
                    journeyLocals, extraction, persistCalls, batchCalls, buffers >>
    /\ StageFrame

\* lines 56-65: next month, num_clicks times.
S3_ClickNextMonth ==
    /\ pc = "s3_next"
    /\ \E num_clicks \in {MinMonthClicks, MaxMonthClicks} :
         \E ch \in Choices(MonthPages(num_clicks, num_clicks, Uniform(NNextMonthSels, "ok")),
                           MonthAlternatives(num_clicks),
                           MonthPages(num_clicks, 0, Uniform(NNextMonthSels, "hidden"))) :
           LET r == click_next_month(num_clicks, ch.page)
           IN  /\ Cost(ch.cost)
               /\ lastPass' = r
               /\ testing' = save_result(testing, "Refine Button Date Validation Test",
                                         page_url, r.count > 0,
                                         IF r.count > 0 THEN "clicked" ELSE "not clicked")
    /\ decisions' = decisions \cup {"num_clicks"}
    /\ pc' = "s3_checkin"
    /\ UNCHANGED << fault, exc, returned, listing_data, suggestion_data, page_url, journeyLocals,
                    extraction, persistCalls, batchCalls, buffers >>
    /\ DrawingFrame

\* line 68: the check-in day.
S3_PickCheckin ==
    /\ pc = "s3_checkin"
    /\ \E ch \in Choices(DayPage(DaysFrom(1, MaxDays)), DayAlternatives(DaysFrom(1, MaxDays)),
                         DayNothing) :
         /\ Cost(ch.cost)
         /\ dates' = [dates EXCEPT !.checkin = pick_day(ch.page.sels, TRUE, ch.page.click)]
    /\ pc' = "s3_checkout"
    /\ UNCHANGED << fault, exc, returned, testing, listing_data, suggestion_data, page_url, country,
                    s2_ok, guests, listings, details, listing, observers, buffers >>
    /\ StageFrame

\* lines 72-84: the check-out day, the date record, the result.
S3_PickCheckout ==
    /\ pc = "s3_checkout"
    /\ LET first == IF dates.checkin = NoDate THEN 1 ELSE dates.checkin
           shown == DaysFrom(first, MaxDays - first + 1)
       IN  \E ch \in Choices(DayPage(shown),
                             DayAlternatives(shown) \cup {DayPage(DaysFrom(1, MaxDays))},
                             DayNothing) :
             LET co == pick_day(ch.page.sels, FALSE, ch.page.click)
             IN  /\ Cost(ch.cost)
                 /\ dates' = [dates EXCEPT !.checkout = co]
                 /\ testing' = save_result(testing, "Date Selection", page_url,
                                           BothPicked(dates.checkin # NoDate, co # NoDate),
                                           "dates")
    /\ Returns(3)
    /\ UNCHANGED << fault, exc, listing_data, suggestion_data, page_url, country, s2_ok, guests,
                    listings, details, listing, observers, buffers >>
    /\ StageFrame

(***************************************************************************)
(* Step 4: Step04GuestPicker.run.  guests holds self.total_guests, which   *)
(* run() returns.                                                          *)
(***************************************************************************)
SearchPath  == "/s/homes"
CheckinKeys == { "checkin", "check_in", "check-in" }
GuestKeys   == { "adults", "guests" }

\* The URL of a results page, with or without its query parameters.
SearchUrl(withDates, withGuests) ==
    << Origin, SearchPath >> \o (IF withDates THEN << "checkin" >> ELSE << >>)
                             \o (IF withGuests THEN << "adults" >> ELSE << >>)

GuestField(o, stepper, adults) == [o |-> o, stepper |-> stepper, adults |-> adults]
GuestNominal == Uniform(NGuestFieldSels, GuestField("ok", "visible", "visible"))
GuestNothing == Uniform(NGuestFieldSels, GuestField("hidden", "hidden", "hidden"))
GuestAlternatives ==
    { Uniform(NGuestFieldSels, GuestField(o, "hidden", "hidden")) :
        o \in {"err", "hidden", "disabled", "blocked", "ok"} }
    \cup { Uniform(NGuestFieldSels, GuestField("ok", "err", "hidden")),
           [i \in 1..NGuestFieldSels |->
               IF i = 2 THEN GuestField("ok", "visible", "visible")
               ELSE GuestField("hidden", "hidden", "hidden")] }

StepperAlternatives(target) ==
    { GuestEnv(target, pat, first) :
        pat \in { << "disabled" >>, << "hidden" >>, << "err" >>, << "blocked", "ok" >> },
        first \in 0..1 }

\* lines 42-58: the guest field is clicked; without the popup the stage returns 0.
S4_OpenGuestPicker ==
    /\ pc = "s4_open"
    /\ store = "up"
    /\ \E ch \in Choices(GuestNominal, GuestAlternatives, GuestNothing) :
         LET r == open_guest_picker(ch.page)
         IN  /\ Cost(ch.cost)
             /\ lastPass' = r
             /\ testing' = save_result(testing, "Guest Picker Open Verification", page_url,
                                       r.found, IF r.found THEN "opened" ELSE "did not open")
             /\ IF r.found
                THEN pc' = "s4_add" /\ UNCHANGED << returned, guests >>
                ELSE Returns(4) /\ guests' = 0
    /\ UNCHANGED << fault, exc, listing_data, suggestion_data, page_url, country, s2_ok, dates,
                    listings, details, listing, extraction, persistCalls, batchCalls, buffers >>
    /\ StageFrame

\* lines 61-74: guests are added; _read_guest_field only feeds the comment.
S4_AddGuests ==
    /\ pc = "s4_add"
    /\ \E target \in {MinGuests, MaxGuests} :
         \E ch \in Choices(GuestEnv(target, << "ok" >>, 0), StepperAlternatives(target),
                           GuestEnv(target, << "hidden" >>, 0)) :
           LET r == add_guests(target, ch.page)
           IN  /\ Cost(ch.cost)
               /\ lastPass' = r
               /\ guests' = r.count
               /\ testing' = save_result(testing, "Guest Count Display Verification", page_url,
                                         r.count > 0, "guest field")
    /\ decisions' = decisions \cup {"target", "sel"}
    /\ pc' = "s4_search"
    /\ UNCHANGED << fault, exc, returned, listing_data, suggestion_data, page_url, country, s2_ok,
                    dates, listings, details, listing, extraction, persistCalls, batchCalls, buffers >>
    /\ DrawingFrame

\* lines 77-90: the Search button; a successful click loads a results page.
S4_ClickSearch ==
    /\ pc = "s4_search"
    /\ \E ch \in Choices(Uniform(NSearchSels, "ok"), ClickAlternatives(NSearchSels),
                         Uniform(NSearchSels, "hidden")),
          withDates \in BOOLEAN, withGuests \in BOOLEAN :
         LET r   == click_search(ch.page)
             url == IF r.found THEN SearchUrl(withDates, withGuests) ELSE page_url
             off == IF r.found /\ ~(withDates /\ withGuests) THEN 1 ELSE 0
         IN  /\ Cost(ch.cost + off)
             /\ lastPass' = r
             /\ page_url' = url
             /\ network_logs' = IF r.found THEN capture_network(network_logs, url, GET)
                                ELSE network_logs
             /\ testing' = save_result(testing, "Search Button Click After Guest Selection",
                                       url, r.found,
                                       IF r.found THEN "clicked" ELSE "click failed")
    /\ Returns(4)
    /\ UNCHANGED << fault, exc, listing_data, suggestion_data, country, s2_ok, dates, guests,
                    listings, details, listing, extraction, persistCalls, batchCalls, console_logs >>
    /\ StageFrame

(***************************************************************************)
(* Step 5: Step05SearchResults.run                                         *)
(***************************************************************************)
NLoadedSels == 3
NUiSels     == 3
ItemCap     == 20    \* out.slice(0, 20)
CardTitleMax == 200  \* title.trim().slice(0, 200)
MaxElements == 2     \* bound: listing elements on a results page

Slice(seq, n) == SubSeq(seq, 1, Min(Len(seq), n))

dates_in_url(u)  == \E i \in 1..Len(u) : u[i] \in CheckinKeys
guests_in_url(u) == \E i \in 1..Len(u) : u[i] \in GuestKeys

\* _check_dates_guests_in_ui.  page[i]: "err", "hidden", "placeholder" (visible,
\* showing nothing or one of the placeholder texts) or "text".
check_dates_guests_in_ui(page) == \E i \in 1..NUiSels : page[i] = "text"

\* The primary script: one item per ListItem element that has a name.
primary_scrape(elements) ==
    LET out  == [k \in 1..Len(elements) |->
                    Row(elements[k].name, Trunc(elements[k].price, PriceMax),
                        elements[k].img, elements[k].url)]
        keep == [k \in 1..Len(elements) |-> elements[k].name # << >>]
    IN  Slice(SelectSeq2(out, keep), ItemCap)

\* The fallback script: one item per card whose title is not blank.
fallback_scrape(cards) ==
    LET out  == [k \in 1..Len(cards) |->
                    Row(Trunc(Strip(cards[k].name), CardTitleMax),
                        Trunc(cards[k].price, PriceMax), cards[k].img, cards[k].url)]
        keep == [k \in 1..Len(cards) |-> Strip(cards[k].name) # << >>]
    IN  Slice(SelectSeq2(out, keep), ItemCap)

\* _scrape_all_listings with the fallback script run in every case.
scrape_all_listings_both(p) ==
    LET first  == primary_scrape(p.elements)
        second == fallback_scrape(p.cards)
    IN  [items |-> IF first # << >> THEN first ELSE second, primary |-> Len(first),
         fallbackRun |-> TRUE]

\* _scrape_all_listings, lines 143-211 (the scripts do not raise here).
scrape_all_listings(p) ==
    LET first == primary_scrape(p.elements)
    IN  IF first # << >>
        THEN [items |-> first, primary |-> Len(first), fallbackRun |-> FALSE]
        ELSE [items |-> fallback_scrape(p.cards), primary |-> 0, fallbackRun |-> TRUE]

Element(name, url) == [name |-> name, url |-> url, img |-> Image1, price |-> Price1]
ResultsPage(raises, elements, cards) ==
    [raises |-> raises, elements |-> elements, cards |-> cards]
ResultsNominal == ResultsPage("none", << Element(Title1, AbsRoom("1")) >>,
                                      << Element(Title1, AbsRoom("1")) >>)
ResultsNothing == ResultsPage("none", << >>, << >>)
ResultsAlternatives ==
    { ResultsPage(r, ResultsNominal.elements, ResultsNominal.cards) :
        r \in {"scroll", "primary"} }
    \cup { ResultsPage("fallback", << >>, << >>), ResultsNothing,
           ResultsPage("none", << >>, ResultsNominal.cards),
           ResultsPage("none", << Element(<< >>, AbsRoom("1")) >>, ResultsNominal.cards) }
    \cup { ResultsPage("none", << Element(Title1, u) >>, ResultsNominal.cards) :
             u \in { RelRoom("1"), BareRoom("1"), << >> } }
    \cup { ResultsPage("none", es, ResultsNominal.cards) :
             es \in { [k \in 1..n |-> Element(Title1, AbsRoom("1"))] : n \in 2..MaxElements }
                    \cup { << Element(Title1, AbsRoom("1")), Element(Title2, AbsRoom("2")) >> } }

\* lines 30-66: is the results page loaded? and the two URL records.
S5_Verify ==
    /\ pc = "s5_verify"
    /\ store = "up"
    /\ \E ch \in Choices(Uniform(NLoadedSels, "visible"), ProbeAlternatives(NLoadedSels),
                         Uniform(NLoadedSels, "hidden")) :
         LET r  == ProbePass("verify_page_loaded", NLoadedSels, ch.page)
             t1 == save_result(testing, "Search Results Page Load Verification", page_url,
                               r.found, IF r.found THEN "loaded" ELSE "did not load")
             t2 == save_result(t1, "Selected Dates in URL Validation", page_url,
                               dates_in_url(Lower(page_url)), "date params")
         IN  /\ Cost(ch.cost)
             /\ lastPass' = r
             /\ testing' = save_result(t2, "Selected Guest Count in URL Validation", page_url,
                                       guests_in_url(Lower(page_url)), "guest params")
    /\ pc' = "s5_ui"
    /\ UNCHANGED << fault, exc, returned, listing_data, suggestion_data, page_url, journeyLocals,
                    extraction, persistCalls, batchCalls, buffers >>
    /\ StageFrame

\* lines 69-77: dates and guests in the search bar.
S5_CheckUi ==
    /\ pc = "s5_ui"
    /\ \E ch \in Choices(Uniform(NUiSels, "text"),
                         { Uniform(NUiSels, o) : o \in {"err", "hidden", "placeholder"} },
                         Uniform(NUiSels, "hidden")) :
         /\ Cost(ch.cost)
         /\ testing' = save_result(testing,
                                   "Selected Dates and Guest Count in Page UI Confirmation",
                                   page_url, check_dates_guests_in_ui(ch.page), "search bar")
    /\ pc' = "s5_scrape"
    /\ UNCHANGED << fault, exc, returned, listing_data, suggestion_data, page_url, journeyLocals,
                    observers, buffers >>
    /\ StageFrame

\* `if listings: self.db.save_listings(listings)`: the batched calls made.
listing_batches_twice(items) ==
    IF items # << >> THEN << Batch("save_listings"), Batch("save_listings") >> ELSE << >>

listing_batches(items) ==
    IF items # << >> THEN << Batch("save_listings") >> ELSE << >>

\* lines 80-94: the listings are scraped and stored.  The scrolls and the two
\* scripts are not guarded.
S5_Scrape ==
    /\ pc = "s5_scrape"
    /\ \E ch \in Choices(ResultsNominal, ResultsAlternatives, ResultsNothing) :
         LET p == ch.page
             r == scrape_all_listings(p)
             raised == \/ p.raises \in {"scroll", "primary"}
                       \/ p.raises = "fallback" /\ r.fallbackRun
         IN  /\ Cost(ch.cost)
             /\ IF raised
                THEN /\ \E text \in FaultTexts("evaluate") : Raises(text)
                     /\ extraction' = [routine |-> "scrape_all_listings",
                                       primary |-> 0,
                                       secondaryTried |-> p.raises = "fallback",
                                       returned |-> FALSE, items |-> 0]
                     /\ UNCHANGED << returned, testing, listings, listing_data, batchCalls >>
                ELSE /\ extraction' = [routine |-> "scrape_all_listings",
                                       primary |-> r.primary,
                                       secondaryTried |-> r.fallbackRun,
                                       returned |-> TRUE, items |-> Len(r.items)]
                     /\ listings' = r.items
                     /\ testing' = save_result(testing, "Listing Data Scraping", page_url,
                                               Len(r.items) > 0, "scraped")
                     /\ listing_data' = IF r.items # << >>
                                        THEN save_listings(listing_data, r.items)
                                        ELSE listing_data
                     /\ batchCalls' = batchCalls \o listing_batches(r.items)
                     /\ Returns(5)
                     /\ UNCHANGED << fault, exc >>
    /\ UNCHANGED << suggestion_data, page_url, country, s2_ok, dates, guests, details, listing,
                    lastPass, persistCalls, buffers >>
    /\ StageFrame

(***************************************************************************)
(* Step 6: Step06ListingDetails.run                                        *)
(***************************************************************************)
NSubtitleSels == 3
MuscacheHost  == "https://a0.muscache.com"
QuerySuffix   == "?source_impression_id=p3"

\* _navigate_to_listing, lines 107-113: the URL navigated to directly, if any.
DetailTarget(listing_url) ==
    IF listing_url = << >> THEN << >>
    ELSE IF StartsWithHttp(listing_url) THEN listing_url
    ELSE << Origin >> \o listing_url

GoesDirect(listing_url) == listing_url # << >> /\ HasRooms(DetailTarget(listing_url))

\* _get_h1_title.  h1 = [o, text]
get_h1_title(h1) == IF IsVisible(h1.o) THEN Strip(h1.text) ELSE << >>

\* _get_h2_subtitle.  page[i] = [o, text]
RECURSIVE SubtitleFrom(_, _)
SubtitleFrom(page, i) ==
    IF i > NSubtitleSels THEN << >>
    ELSE IF IsVisible(page[i].o) /\ Strip(page[i].text) # << >> THEN Strip(page[i].text)
    ELSE SubtitleFrom(page, i + 1)

get_h2_subtitle(page) == SubtitleFrom(page, 1)

\* _collect_gallery_images: the script walks the img elements and adds to a Set
\* src, dataset.src, dataset.originalUri and the URLs of srcset.
IsMuscache(u) == \E i \in 1..Len(u) : u[i] = MuscacheHost
IsDataUrl(u)  == Len(u) > 0 /\ u[1] = "data:"

Candidates(img) ==
    SelectSeq(<< img.src, img.data_src, img.original_uri >>,
              LAMBDA u : u # << >> /\ IsMuscache(u) /\ ~IsDataUrl(u))
    \o SelectSeq(img.srcset, LAMBDA u : u # << >> /\ IsMuscache(u))

\* urls.add(u) for each u of urls, in order: a Set keeps one of each value.
AddAllRepeating(urls, acc) == acc \o urls

RECURSIVE AddAll(_, _)
AddAll(urls, acc) ==
    IF urls = << >> THEN acc
    ELSE IF \E k \in 1..Len(acc) : acc[k] = Head(urls) THEN AddAll(Tail(urls), acc)
    ELSE AddAll(Tail(urls), Append(acc, Head(urls)))

RECURSIVE GalleryFrom(_, _)
GalleryFrom(imgs, acc) ==
    IF imgs = << >> THEN acc ELSE GalleryFrom(Tail(imgs), AddAll(Candidates(Head(imgs)), acc))

collect_gallery_images(imgs) == GalleryFrom(imgs, << >>)

Subtitle1 == << "Room in London" >>
Img(src, srcset) == [src |-> src, data_src |-> << >>, original_uri |-> << >>, srcset |-> srcset]
Heading(o, text) == [o |-> o, text |-> text]

DetailPage(raises, h1, h2, imgs) == [raises |-> raises, h1 |-> h1, h2 |-> h2, imgs |-> imgs]
DetailNominal ==
    DetailPage(FALSE, Heading("visible", Title2),
               Uniform(NSubtitleSels, Heading("visible", Subtitle1)), << Img(Image1, << >>) >>)
DetailNothing ==
    DetailPage(FALSE, Heading("hidden", << >>),
               Uniform(NSubtitleSels, Heading("hidden", << >>)), << >>)
DetailAlternatives ==
    { DetailNothing,
      [DetailNominal EXCEPT !.raises = TRUE],
      [DetailNominal EXCEPT !.h1 = Heading("visible", << " " >>)],
      [DetailNominal EXCEPT !.h1 = Heading("err", << >>)],
      [DetailNominal EXCEPT !.h2 = Uniform(NSubtitleSels, Heading("hidden", << >>))],
      [DetailNominal EXCEPT !.imgs = << >>],
      [DetailNominal EXCEPT !.imgs = << Img(Image1, << Image1 >>), Img(Image1, << >>) >>] }

\* The room links the page offers to the last resort of _navigate_to_listing.
RoomLinks == { << >>, RelRoom("2"), AbsRoom("2") }

\* lines 33-61: no listing, or one listing chosen and its page opened.
S6_Begin ==
    /\ pc = "s6_begin"
    /\ store = "up"
    /\ IF listings = << >>
       THEN /\ testing' = save_result(testing, "Listing Details Page Load", page_url, FALSE,
                                      "no listings")
            /\ details' = NoDetails
            /\ Returns(6)
            /\ Cost(0)
            /\ UNCHANGED << fault, exc, page_url, listing, network_logs,
                            decisions, summary, earlier >>
       ELSE \E k \in 1..Len(listings) :
              LET url    == listings[k].listing_url
                  direct == GoesDirect(url)
              IN  \E href \in (IF direct THEN {<< >>} ELSE RoomLinks) :
                    LET target == IF direct THEN DetailTarget(url) ELSE DetailTarget(href)
                        stays  == [raised |-> FALSE, went |-> FALSE, url |-> page_url,
                                   cost |-> 0]
                    IN  \E g \in (IF target = << >> THEN {stays}
                                  ELSE navigate(target, {target \o << QuerySuffix >>, HomeUrl})) :
                          /\ Cost(g.cost + (IF direct \/ href = << >> THEN 0 ELSE 1))
                          /\ listing' = listings[k]
                          /\ decisions' = decisions \cup {"listing"} \cup
                                              (IF direct \/ href = << >> THEN {}
                                               ELSE {"pick"})
                          /\ IF g.raised /\ direct
                             THEN /\ \E text \in FaultTexts("goto") : Raises(text)
                                  /\ UNCHANGED << returned, testing, page_url, network_logs >>
                             ELSE /\ page_url' = g.url
                                  /\ network_logs' =
                                         IF g.went /\ ~g.raised
                                         THEN capture_network(network_logs, g.url, GET)
                                         ELSE network_logs
                                  /\ testing' = save_result(testing,
                                         "Listing Details Page Load", g.url, HasRooms(g.url),
                                         IF HasRooms(g.url) THEN "opened" ELSE "failed to open")
                                  /\ pc' = "s6_extract"
                                  /\ UNCHANGED << fault, exc, returned >>
                          /\ UNCHANGED details
    /\ UNCHANGED << listing_data, suggestion_data, country, s2_ok, dates, guests, listings,
                    observers, console_logs >>
    /\ DrawingFrame

\* lines 64-98: title, subtitle, gallery, the detail record.  The gallery
\* script is not guarded.
S6_Extract ==
    /\ pc = "s6_extract"
    /\ \E ch \in Choices(DetailNominal, DetailAlternatives, DetailNothing) :
         LET p        == ch.page
             title    == get_h1_title(p.h1)
             subtitle == get_h2_subtitle(p.h2)
             images   == collect_gallery_images(p.imgs)
             t1       == save_result(testing, "Listing Title and Subtitle Capture", page_url,
                                     title # << >>, "title and subtitle")
             result   == [isEmpty |-> FALSE, title |-> title, subtitle |-> subtitle,
                          image_urls |-> images, url |-> page_url]
         IN  /\ Cost(ch.cost)
             /\ IF p.raises
                THEN /\ testing' = t1
                     /\ \E text \in FaultTexts("evaluate") : Raises(text)
                     /\ UNCHANGED << returned, details, listing_data, persistCalls >>
                ELSE /\ testing' = save_result(t1, "Listing Gallery Image URLs Collection",
                                               page_url, Len(images) > 0, "images")
                     /\ listing_data' = persist(listing_data, result)
                     /\ persistCalls' = Append(persistCalls, result)
                     /\ details' = result
                     /\ Returns(6)
                     /\ UNCHANGED << fault, exc >>
    /\ UNCHANGED << suggestion_data, page_url, country, s2_ok, dates, guests, listings, listing,
                    lastPass, extraction, batchCalls, buffers >>
    /\ StageFrame

(***************************************************************************)
(* The end of _run_journey and of handle().                                *)
(***************************************************************************)

\* DatabaseService.save_network_logs
save_network_logs(table, logs) ==
    LET objs == [k \in 1..Len(logs) |->
                    [url |-> logs[k].url,
                     method |-> IF Upper(logs[k].method) \in ValidMethods
                                THEN Upper(logs[k].method) ELSE GET,
                     status_code |-> logs[k].status_code,
                     resource_type |-> Trunc(logs[k].resource_type, 50)]]
        keep == [k \in 1..Len(logs) |->
                    logs[k].url # << >> /\ ~IsDataOrBlob(logs[k].url)]
    IN  table \o SelectSeq2(objs, keep)

\* DatabaseService.save_console_logs (the levels of the buffer are upper case)
save_console_logs(table, logs) ==
    table \o [k \in 1..Len(logs) |->
                 [level |-> CASE logs[k].level \in {"LOG", "INFO"} -> "INFO"
                              [] logs[k].level \in {"WARNING", "WARN"} -> "WARNING"
                              [] logs[k].level = "ERROR" -> "ERROR"
                              [] logs[k].level = "DEBUG" -> "DEBUG"
                              [] OTHER -> "INFO",
                  message |-> Trunc(logs[k].message, 2000),
                  source |-> Trunc(logs[k].source, 512)]]

\* _run_journey, lines 193-204: the buffers are stored once the six steps returned.
FlushLogs ==
    /\ pc = "journey"
    /\ Len(returned) = NStages
    /\ store = "up"
    /\ console_log' = IF console_logs # << >> THEN save_console_logs(console_log, console_logs)
                      ELSE console_log
    /\ network_log' = IF network_logs # << >> THEN save_network_logs(network_log, network_logs)
                      ELSE network_log
    /\ batchCalls' = batchCalls
                       \o (IF console_logs # << >> THEN << Batch("save_console_logs") >>
                           ELSE << >>)
                       \o (IF network_logs # << >> THEN << Batch("save_network_logs") >>
                           ELSE << >>)
    /\ pc' = "flushed"
    /\ UNCHANGED << fault, exc, exitStatus, browserOpen, started, returned, testing, listing_data,
                    suggestion_data, page_url, journeyLocals, lastPass, extraction, persistCalls,
                    store, buffers, degraded, blank, lastCall, decisions, summary, earlier >>

\* TestResult.objects: the rows earlier runs left in table "testing", then the
\* rows of this run.
TestResult_objects_this_run(prior, run) == run

TestResult_objects(prior, run) == prior \o run

\* _print_final_summary, lines 230-232: count(), filter(passed=True).count() and
\* their difference.
print_final_summary(table) ==
    LET total  == Len(table)
        passed == Cardinality({ i \in 1..Len(table) : table[i].passed })
    IN  [total |-> total, passed |-> passed, failed |-> total - passed]

\* What earlier runs left in table "testing": nothing, or a passing and a
\* failing record (counted among the aspects off nominal).  Nothing reads the
\* table before the summary does.
PriorTables ==
    { << >>,
      save_result(save_result(<< >>, "Homepage Load Verification", HomeUrl, TRUE, "loaded"),
                  "Search Field Click", HomeUrl, FALSE, "no search input") }

\* lines 207-222: the passing end record is written, then the summary is
\* printed from the table.
SessionEnd ==
    /\ pc = "flushed"
    /\ store = "up"
    /\ testing' = save_result(testing, "Automation Session End", page_url, TRUE, "complete")
    /\ \E prior \in PriorTables :
         /\ Cost(IF prior = << >> THEN 0 ELSE 1)
         /\ earlier' = prior
         /\ summary' = print_final_summary(TestResult_objects(prior, testing'))
    /\ pc' = "summary"
    /\ UNCHANGED << fault, exc, exitStatus, browserOpen, started, returned, listing_data,
                    suggestion_data, page_url, journeyLocals, observers, logTables, store, buffers,
                    blank, lastCall, decisions >>

\* The listener attached at browser_service.py line 91 fires once more: a
\* response of the page still open arrives after the buffers were stored and
\* before the end record is written (its url is read from the page), and
\* _capture_network appends it.
LateCapture ==
    /\ pc = "flushed"
    /\ browserOpen
    /\ Cost(1)
    /\ network_logs' = capture_network(network_logs, page_url, GET)
    /\ UNCHANGED << pc, fault, exc, exitStatus, browserOpen, started, returned, testing,
                    listing_data, suggestion_data, page_url, journeyLocals, observers,
                    logTables, store, console_logs, blank, lastCall, decisions, summary,
                    earlier >>

\* The exit status of a run whose handle() returns.
exit_status_by_verdicts(table) ==
    IF \E i \in 1..Len(table) : ~table[i].passed THEN 1 ELSE 0

exit_status(table) == 0

\* handle(), line 113: nothing follows the with block; handle() returns.
HandleReturn ==
    /\ pc = "return"
    /\ exitStatus' = exit_status(testing)
    /\ pc' = "done"
    /\ UNCHANGED << fault, exc, browserOpen, started, returned, testing, listing_data,
                    suggestion_data, page_url, journeyLocals, observers, logTables, store,
                    buffers, degraded, blank, lastCall, decisions, summary, earlier >>

Next ==
    \/ HandleStart
    \/ CallStage
    \/ S1_Land
    \/ S1_ActivateSearchField
    \/ S1_Type
    \/ S2_Wait
    \/ S2_Collect
    \/ S2_Click
    \/ S3_Picker
    \/ S3_TryOpenDateField
    \/ S3_PickerAgain
    \/ S3_ClickNextMonth
    \/ S3_PickCheckin
    \/ S3_PickCheckout
    \/ S4_OpenGuestPicker
    \/ S4_AddGuests
    \/ S4_ClickSearch
    \/ S5_Verify
    \/ S5_CheckUi
    \/ S5_Scrape
    \/ S6_Begin
    \/ S6_Extract
    \/ FlushLogs
    \/ SessionEnd
    \/ LateCapture
    \/ KeyboardInterrupt
    \/ BrowserExit
    \/ HandleReturn
    \/ ExceptException
    \/ ExceptKeyboardInterrupt

Spec == InitCommand /\ [][Next]_vars

(***************************************************************************)
(* SpecRecorder: the command with a database that can become unreachable.  *)
(* The outage begins between two stages, after the logs were stored or     *)
(* while an exception propagates, and lasts: from then on every call of the DatabaseService raises.       *)
(* save_result (database_service.py, lines 35-53) has no try/except, so    *)
(* the first record written after the outage began raises; the actions     *)
(* below are the segments that write that record.                          *)
(***************************************************************************)
StoreErrorText == << "OperationalError" >>

StoreGoesDown ==
    /\ store = "up"
    /\ pc \in {"journey", "flushed", "raised"}
    /\ Cost(1)
    /\ store' = "down"
    /\ UNCHANGED << pc, fault, exc, exitStatus, browserOpen, started, returned, testing,
                    listing_data, suggestion_data, page_url, journeyLocals, observers, logTables,
                    buffers, blank, lastCall, decisions, summary, earlier >>

\* The first save_result of a stage raises after the probe pass r.
SaveResultRaises(r, cost) ==
    /\ store = "down"
    /\ Cost(cost)
    /\ lastPass' = r
    /\ Raises(StoreErrorText)
    /\ UNCHANGED << returned, testing, listing_data, suggestion_data, page_url, journeyLocals,
                    extraction, persistCalls, batchCalls, buffers >>
    /\ StageFrame

\* step 1, lines 43-68: the homepage is opened; the homepage record raises.
S1_LandStoreDown ==
    /\ pc = "s1_land"
    /\ store = "down"
    /\ \E g \in navigate(HomeUrl, {OtherHome}), msgs \in 0..1 :
         IF g.raised
         THEN /\ \E text \in FaultTexts("goto") : Raises(text)
              /\ Cost(g.cost)
              /\ UNCHANGED << page_url, buffers >>
         ELSE /\ Cost(g.cost + msgs)
              /\ page_url' = g.url
              /\ network_logs' = IF g.went THEN capture_network(network_logs, g.url, GET)
                                 ELSE network_logs
              /\ console_logs' = IF msgs = 1
                                 THEN capture_console(console_logs, "error", << "m" >>)
                                 ELSE console_logs
              /\ Raises(StoreErrorText)
    /\ UNCHANGED << returned, testing, listing_data, suggestion_data, journeyLocals, observers >>
    /\ StageFrame

\* step 2, lines 31-47
S2_WaitStoreDown ==
    /\ pc = "s2_wait"
    /\ \E ch \in Choices(Uniform(NDropdownSels, "visible"), ProbeAlternatives(NDropdownSels),
                         Uniform(NDropdownSels, "hidden")) :
         SaveResultRaises(ProbePass("wait_for_dropdown", NDropdownSels, ch.page), ch.cost)

\* step 3, lines 35-50
S3_PickerStoreDown ==
    /\ pc = "s3_picker"
    /\ \E ch \in Choices(Uniform(NPickerSels, "visible"), ProbeAlternatives(NPickerSels),
                         Uniform(NPickerSels, "hidden")) :
         SaveResultRaises(ProbePass("wait_for_picker", NPickerSels, ch.page), ch.cost)

\* step 4, lines 42-58
S4_OpenGuestPickerStoreDown ==
    /\ pc = "s4_open"
    /\ \E ch \in Choices(GuestNominal, GuestAlternatives, GuestNothing) :
         SaveResultRaises(open_guest_picker(ch.page), ch.cost)

\* step 5, lines 30-42
S5_VerifyStoreDown ==
    /\ pc = "s5_verify"
    /\ \E ch \in Choices(Uniform(NLoadedSels, "visible"), ProbeAlternatives(NLoadedSels),
                         Uniform(NLoadedSels, "hidden")) :
         SaveResultRaises(ProbePass("verify_page_loaded", NLoadedSels, ch.page), ch.cost)

\* step 6, lines 33-61: the page-load record raises, with no listing at once,
\* otherwise after the listing was chosen and its page opened.
S6_BeginStoreDown ==
    /\ pc = "s6_begin"
    /\ store = "down"
    /\ IF listings = << >>
       THEN /\ Raises(StoreErrorText)
            /\ Cost(0)
            /\ UNCHANGED << page_url, listing, network_logs, decisions, summary, earlier >>
       ELSE \E k \in 1..Len(listings) :
              LET url    == listings[k].listing_url
                  direct == GoesDirect(url)
              IN  \E href \in (IF direct THEN {<< >>} ELSE RoomLinks) :
                    LET target == IF direct THEN DetailTarget(url) ELSE DetailTarget(href)
                        stays  == [raised |-> FALSE, went |-> FALSE, url |-> page_url,
                                   cost |-> 0]
                    IN  \E g \in (IF target = << >> THEN {stays}
                                  ELSE navigate(target, {target \o << QuerySuffix >>, HomeUrl})) :
                          /\ Cost(g.cost + (IF direct \/ href = << >> THEN 0 ELSE 1))
                          /\ listing' = listings[k]
                          /\ decisions' = decisions \cup {"listing"} \cup
                                              (IF direct \/ href = << >> THEN {}
                                               ELSE {"pick"})
                          /\ IF g.raised /\ direct
                             THEN /\ \E text \in FaultTexts("goto") : Raises(text)
                                  /\ UNCHANGED << page_url, network_logs >>
                             ELSE /\ page_url' = g.url
                                  /\ network_logs' =
                                         IF g.went /\ ~g.raised
                                         THEN capture_network(network_logs, g.url, GET)
                                         ELSE network_logs
                                  /\ Raises(StoreErrorText)
    /\ UNCHANGED << returned, testing, listing_data, suggestion_data, country, s2_ok, dates,
                    guests, listings, details, observers, console_logs >>
    /\ DrawingFrame

\* _run_journey, lines 193-204: the first non-empty buffer stored raises; with
\* both buffers empty nothing is called.
FlushLogsStoreDown ==
    /\ pc = "journey"
    /\ Len(returned) = NStages
    /\ store = "down"
    /\ IF console_logs # << >> \/ network_logs # << >>
       THEN Raises(StoreErrorText)
       ELSE pc' = "flushed" /\ UNCHANGED << fault, exc >>
    /\ UNCHANGED << exitStatus, browserOpen, started, returned, testing, listing_data,
                    suggestion_data, page_url, journeyLocals, observers, logTables, store,
                    buffers, degraded, blank, lastCall, decisions, summary, earlier >>

\* _run_journey, lines 207-220: the end record raises.
SessionEndStoreDown ==
    /\ pc = "flushed"
    /\ store = "down"
    /\ Raises(StoreErrorText)
    /\ UNCHANGED << exitStatus, browserOpen, started, returned, testing, listing_data,
                    suggestion_data, page_url, journeyLocals, observers, logTables, store,
                    buffers, degraded, blank, lastCall, decisions, summary, earlier >>

\* handle(), lines 125-135: save_result raises inside the except clause; the
\* `raise` of line 135 is not reached and the new exception leaves handle().
ExceptExceptionStoreDown ==
    /\ pc = "except_exception"
    /\ store = "down"
    /\ exc' = StoreErrorText
    /\ exitStatus' = 1
    /\ pc' = "done"
    /\ UNCHANGED << fault, browserOpen, started, returned, testing, listing_data,
                    suggestion_data, page_url, journeyLocals, observers, logTables, store,
                    buffers, degraded, blank, lastCall, decisions, summary, earlier >>

\* handle(), lines 115-123: save_result raises inside the except clause and
\* the exception leaves handle().
ExceptKeyboardInterruptStoreDown ==
    /\ pc = "except_interrupt"
    /\ store = "down"
    /\ exc' = StoreErrorText
    /\ exitStatus' = 1
    /\ pc' = "done"
    /\ UNCHANGED << fault, browserOpen, started, returned, testing, listing_data,
                    suggestion_data, page_url, journeyLocals, observers, logTables, store,
                    buffers, degraded, blank, lastCall, decisions, summary, earlier >>

NextRecorder ==
    \/ Next
    \/ StoreGoesDown
    \/ S1_LandStoreDown
    \/ S2_WaitStoreDown
    \/ S3_PickerStoreDown
    \/ S4_OpenGuestPickerStoreDown
    \/ S5_VerifyStoreDown
    \/ S6_BeginStoreDown
    \/ FlushLogsStoreDown
    \/ SessionEndStoreDown
    \/ ExceptExceptionStoreDown
    \/ ExceptKeyboardInterruptStoreDown

SpecRecorder == InitCommand /\ [][NextRecorder]_vars

(***************************************************************************)
(* SpecRoutines: the extraction and storing routines, each called on its   *)
(* own with every input of bounded size.                                   *)
(***************************************************************************)
MaxImgs == 2   \* bound: img elements of the detail page

Image2     == << "https://a0.muscache.com", "/im/2.jpg" >>
DataImage  == << "data:", "image/png", "muscache.com", "https://a0.muscache.com" >>
OtherImage == << "https://cdn.example.com", "/im/3.jpg" >>
\* The img elements of a detail page.
GalleryImgs ==
    { [src |-> a, data_src |-> r[1], original_uri |-> r[2], srcset |-> r[3]] :
        a \in {<< >>, Image1, DataImage, OtherImage},
        r \in { << << >>, << >>, << >> >>,
                << Image2, << >>, << >> >>,
                << << >>, Image1, << Image1, Image2 >> >>,
                << Image2, Image1, << Image2, Image2 >> >> } }

MaxQuery == 3   \* bound: characters of the destination
MaxText  == 2   \* bound: characters of a suggestion text

\* Destinations (one or two words, blank, empty) and lists of up to two
\* harvested suggestion texts, in both cases.
RelQueries   == SeqsUpTo({"a", "B", " "}, MaxQuery)
RelTexts     == SeqsUpTo({"A", "b"}, MaxText) \ { << >> }
RelTextLists ==
    { << >> } \cup { << t >> : t \in RelTexts } \cup { << << "b" >>, t >> : t \in RelTexts }

\* Pages with up to one element more than a page of results holds.
ElementCounts == { 0, 1, ItemCap, ItemCap + 1 }
Elements(n)   == [k \in 1..n |-> Element(Title1, AbsRoom("1"))]
Options_(n)   == [k \in 1..n |-> Paris]

\* The widths of the columns not named above (models.py) and the longest
\* test_case literal of the steps.
TestCaseMax     == 255
ResourceTypeMax == 50
SourceMax       == 512
MessageCut      == 2000
LongestTestCase == 54
TestCases ==
    UNION { StageTestCases(n) : n \in 1..NStages }
        \cup { "Automation Session Start", "Automation Session End" }

\* Texts of n characters, for n at and just above every cut the code makes.
Long(n) == [i \in 1..n |-> "x"]
Cuts == { ResourceTypeMax, PriceMax, SuggestionMax, SuggestionQueryMax, TitleMax,
          MessageCut, UrlMax }
TextLengths == { 1 } \cup Cuts \cup { c + 1 : c \in Cuts }

InitRoutines ==
    /\ pc = "routine"
    /\ listing_data = << >>
    /\ InitLocals

\* The routine was called with the input and returned the output.
Called(routine, input, output) ==
    /\ pc = "routine"
    /\ pc' = "called"
    /\ lastCall' = [routine |-> routine, input |-> input, output |-> output]
    /\ UNCHANGED << fault, exc, exitStatus, browserOpen, started, returned, testing,
                    listing_data, page_url, journeyLocals, observers, suggestion_data,
                    logTables, buffers, store, degraded, blank, decisions, summary,
                    earlier >>

Rt_collect_gallery_images ==
    \E imgs \in SeqsUpTo(GalleryImgs, MaxImgs) :
        Called("collect_gallery_images", imgs, collect_gallery_images(imgs))

\* Step02AutoSuggestion.run, lines 53-65: the relevance record.
Rt_relevance ==
    \E q \in RelQueries, texts \in RelTextLists :
        Called("relevance", [search_query |-> q, texts |-> texts],
               save_result(<< >>, "Auto-suggestion Relevance Check", HomeUrl,
                           relevant(q, texts), "suggestions"))

\* Step05SearchResults._scrape_all_listings on a page of n ListItem elements
\* and m cards.
Rt_scrape_all_listings ==
    \E n \in ElementCounts, m \in ElementCounts :
        LET p == ResultsPage("none", Elements(n), Elements(m))
        IN  Called("scrape_all_listings", p, scrape_all_listings(p).items)

\* Step02AutoSuggestion._collect_suggestion_texts on a page whose first
\* selector matches n options and whose second matches m.
Rt_collect_suggestion_texts ==
    \E n \in ElementCounts, m \in ElementCounts :
        LET page == << [err |-> FALSE, items |-> Options_(n)],
                       [err |-> FALSE, items |-> Options_(m)],
                       [err |-> FALSE, items |-> << >>] >>
        IN  Called("collect_suggestion_texts", page, collect_suggestion_texts(page).texts)

\* A record is written with a page address of n characters.
Rt_save_result ==
    \E n \in TextLengths, tc \in TestCases :
        Called("save_result", [test_case |-> tc, url |-> Long(n)],
               save_result(<< >>, tc, Long(n), TRUE, "found"))

\* Stage 2 harvests one option of n characters and stores it.
Rt_save_suggestions ==
    \E n \in TextLengths, k \in 1..MaxCountries :
        LET page == << [err |-> FALSE, items |-> << Long(n) >>],
                       [err |-> FALSE, items |-> << >>],
                       [err |-> FALSE, items |-> << >>] >>
        IN  Called("save_suggestions", page,
                   save_suggestions(<< >>, collect_suggestion_texts(page).texts,
                                    TOP_20_COUNTRIES[k]))

\* Stage 5 scrapes one element (or one card) whose texts have n characters and
\* stores it.
Rt_save_listings ==
    \E n \in TextLengths, card \in BOOLEAN :
        LET el == [name |-> Long(n), url |-> Long(n), img |-> Long(n), price |-> Long(n)]
            p  == ResultsPage("none", IF card THEN << >> ELSE << el >>, << el >>)
        IN  Called("save_listings", p, save_listings(<< >>, scrape_all_listings(p).items))

\* Stage 6 persists a detail record whose texts have n characters.
Rt_persist ==
    \E n \in TextLengths :
        LET result == [isEmpty |-> FALSE, title |-> Long(n), subtitle |-> Long(n),
                       image_urls |-> << Long(n) >>, url |-> Long(n)]
        IN  Called("persist", result, persist(<< >>, result))

\* The lists of available days a selector matches: none, one day without a
\* date text, one day, two days, a calendar view.
DayLists == { << >>, << EmptyDate >>, DaysFrom(1, 1), DaysFrom(1, 2), DaysFrom(3, MaxDays) }
PickPages ==
    { [sels |-> << f, [err |-> FALSE, days |-> d] >>, click |-> c] :
        f \in { [err |-> FALSE, days |-> l] : l \in DayLists }
                 \cup { [err |-> TRUE, days |-> << >>] },
        d \in { << >>, DaysFrom(2, 2) },
        c \in BOOLEAN }

\* Step03DatePicker.run, lines 67-84: the two picks, the date record, the result.
Rt_select_dates ==
    \E p1 \in PickPages, p2 \in PickPages :
        Called("select_dates", << p1, p2 >>,
               [checkin  |-> pick_day(p1.sels, TRUE, p1.click),
                checkout |-> pick_day(p2.sels, FALSE, p2.click),
                record   |-> save_result(<< >>, "Date Selection", HomeUrl,
                                 BothPicked(pick_day_ok(p1.sels, p1.click),
                                            pick_day_ok(p2.sels, p2.click)), "dates")])

\* Step04GuestPicker._add_guests for every target and every periodic pattern
\* of stepper outcomes.
Rt_add_guests ==
    \E target \in MinGuests..MaxGuests :
        \E pat \in SeqsUpTo(ClickOutcome, MaxPattern) \ { << >> }, first \in 0..1 :
            LET env == GuestEnv(target, pat, first)
            IN  Called("add_guests", [target |-> target, env |-> env],
                       add_guests(target, env))

\* BrowserService.__init__, lines 37-40: no handle is held.  A handle is
\* "none" (never assigned), "held" (assigned and not closed) or "closed".
NoSession == [pw |-> "none", browser |-> "none", context |-> "none", page |-> "none"]

\* The calls of __enter__ that can raise, in call order: sync_playwright().start,
\* chromium.launch, new_context, add_init_script, new_page.
NEnterCalls == 5

\* BrowserService.__enter__, lines 49-93: each handle is assigned when its call
\* has returned; the failAt-th call raises (0: none does) and the exception
\* leaves __enter__, which has no try.  The with statement of handle() does not
\* call __exit__ when __enter__ raised: the session is what the caller is left
\* with when the exception reaches it.
browser_enter(failAt) ==
    LET got(k) == IF failAt = 0 \/ failAt > k THEN "held" ELSE "none"
    IN  [session |-> [pw |-> got(1), browser |-> got(2), context |-> got(3), page |-> got(5)],
         raised  |-> failAt # 0]

\* BrowserService.__exit__, lines 95-102: context, browser and Playwright are
\* closed in that order inside one try; failing holds the handles whose close
\* raises; the first close that raises ends the try and `except Exception` logs
\* it.  A handle whose close raised or was not reached stays held.
browser_exit_closes(session, failing) ==
    LET raisesAt(h) == session[h] = "held" /\ h \in failing
        s1 == IF session.context = "held" /\ ~raisesAt("context")
              THEN [session EXCEPT !.context = "closed", !.page = "closed"] ELSE session
        s2 == IF raisesAt("context") THEN s1
              ELSE IF s1.browser = "held" /\ ~raisesAt("browser")
                   THEN [s1 EXCEPT !.browser = "closed"] ELSE s1
        s3 == IF raisesAt("context") \/ raisesAt("browser") THEN s2
              ELSE IF s2.pw = "held" /\ ~raisesAt("pw")
                   THEN [s2 EXCEPT !.pw = "closed"] ELSE s2
    IN  [session |-> s3, raised |-> FALSE]

Rt_browser_enter ==
    \E failAt \in 0..NEnterCalls :
        Called("browser_enter", failAt, browser_enter(failAt))

\* __exit__ runs on the session a successful __enter__ returned.
Rt_browser_exit ==
    \E failing \in SUBSET {"context", "browser", "pw"} :
        Called("browser_exit", failing, browser_exit_closes(browser_enter(0).session, failing))

\* The methods a browser reports: valid ones in either case, and others.
BrowserMethods == ValidMethods \cup { Lower(GET), << "P", "o", "s", "t" >>,
                                      << "H", "E", "A", "D" >>, << "t", "r", "a", "c", "e" >>,
                                      << >> }
\* The types of console message a browser reports.
ConsoleTypes == { "log", "info", "warning", "error", "debug", "trace", "assert", "warn" }

\* A response whose URL has n characters is captured and the buffer stored.
Rt_save_network_logs ==
    \E n \in TextLengths, method \in BrowserMethods :
        Called("save_network_logs", [url |-> Long(n), method |-> method],
               save_network_logs(<< >>, capture_network(<< >>, Long(n), method)))

\* A console message of n characters is captured and the buffer stored.
Rt_save_console_logs ==
    \E n \in TextLengths, type \in ConsoleTypes :
        Called("save_console_logs", [type |-> type, text |-> Long(n)],
               save_console_logs(<< >>, capture_console(<< >>, type, Long(n))))

NextRoutines ==
    \/ Rt_add_guests
    \/ Rt_browser_enter
    \/ Rt_browser_exit
    \/ Rt_select_dates
    \/ Rt_collect_gallery_images
    \/ Rt_save_result
    \/ Rt_save_suggestions
    \/ Rt_save_listings
    \/ Rt_persist
    \/ Rt_save_network_logs
    \/ Rt_save_console_logs
    \/ Rt_scrape_all_listings
    \/ Rt_collect_suggestion_texts
    \/ Rt_relevance

SpecRoutines == InitRoutines /\ [][NextRoutines]_vars

(***************************************************************************)
(* Properties.                                                             *)
(***************************************************************************)
StagesUpTo(n) == [i \in 1..n |-> i]
LastRow(table) == table[Len(table)]
\* The run has ended on its own (no exception, no interrupt).
Completed == pc = "done" /\ fault = "none"

\* C1: in every run the stages start in the order 1, 2, ..., 6; a stage starts
\* only when the one before it has returned; no stage is skipped, started twice
\* or entered again, whatever the earlier stages returned; a run that completes
\* has started and left all six.
C1_StagesInOrder ==
    /\ Len(started) <= NStages
    /\ started = StagesUpTo(Len(started))
    /\ returned = StagesUpTo(Len(returned))
    /\ Len(started) - Len(returned) \in {0, 1}
    /\ pc \in {"flushed", "summary"} \/ Completed => Len(returned) = NStages

\* C1 witness: the sixth stage is started after stage 2 clicked no suggestion
\* and stage 3 picked no date.
C1_Witness ==
    /\ started = StagesUpTo(NStages)
    /\ ~s2_ok
    /\ dates.checkin = NoDate /\ dates.checkout = NoDate

\* The result stage n receives from the stage before it is empty.
EmptyInput(n) ==
    CASE n = 3 -> ~s2_ok
      [] n = 4 -> dates.checkin = NoDate /\ dates.checkout = NoDate
      [] n = 5 -> guests = 0
      [] n = 6 -> listings = << >>
      [] OTHER -> FALSE

\* Stage n was started and has ended, by returning or by raising.
Ended(n)  == Len(returned) >= n \/ (fault = "error" /\ Len(started) = n)

\* C2 (as stated): a stage that received an empty result from the stage before
\* it (no suggestion clicked, both dates null, guest count 0, no listing) still
\* returns without raising and writes at least one assertion record.
C2_EmptyInputStageReturns ==
    \A n \in 3..NStages :
        Len(started) >= n /\ EmptyInput(n) /\ Ended(n)
            => Len(returned) >= n /\ RowsOfStage(testing, n) # {}

\* C3: when stage 5 returned no listing, stage 6 opens no page and extracts
\* nothing, returns the empty detail record and writes exactly one assertion,
\* a failing one; the run can then only end with exit status 0, and where it
\* ends uninterrupted its last record is the passing Automation Session End.
C3_NoListingsShortCircuit ==
    Len(returned) = NStages /\ listings = << >> =>
        /\ details = NoDetails /\ details.isEmpty
        /\ listing = NoListing
        /\ persistCalls = << >>
        /\ \A k \in 1..Len(network_logs) : ~HasRooms(network_logs[k].url)
        /\ Cardinality(RowsOfStage(testing, NStages)) = 1
        /\ \A i \in RowsOfStage(testing, NStages) : ~testing[i].passed
        /\ fault # "error"
        /\ pc = "done" => exitStatus = 0
        /\ Completed => /\ LastRow(testing).test_case = "Automation Session End"
                        /\ LastRow(testing).passed

\* C3 witness: a run with no listing has completed.
C3_Witness == Completed /\ Len(returned) = NStages /\ listings = << >> /\ exitStatus = 0

\* C4: when the calendar controls are entirely absent in stage 3, no next-month
\* click succeeds, stage 3 returns both dates null, its date-selection record is
\* failing, and stage 4 is started next.
C4_NoCalendar ==
    Len(returned) >= 3 /\ blank[3] =>
        /\ dates = [checkin |-> NoDate, checkout |-> NoDate]
        /\ \A i \in RowsOf(testing, "Refine Button Date Validation Test") : ~testing[i].passed
        /\ Cardinality(RowsOf(testing, "Date Selection")) = 1
        /\ \A i \in RowsOf(testing, "Date Selection") : ~testing[i].passed
        /\ fault # "error" \/ Len(started) >= 4
        /\ pc = "journey" /\ Len(started) = 3 => ENABLED CallStage
        /\ Len(started) >= 4 => started[4] = 4

\* C4 witness: stage 4 is running after a stage 3 that found no calendar.
C4_Witness == Len(started) >= 4 /\ blank[3] /\ pc = "s4_open"

\* The resolution sites that walk a listed sequence of candidates.
OrderedSites == { "activate_search_field", "try_open_date_field", "click_next_month",
                  "open_guest_picker", "click_search" }
\* The resolution sites of stages 1 to 4 that click.
ClickSites == OrderedSites \cup { "add_guests" }

\* A candidate resolved: it was located visible and interactable.
LocatedInteractable(a) == a.visible /\ a.enabled

C6_ClickOnlyConfirmed ==
    lastPass.site \in ClickSites =>
        \A k \in 1..Len(lastPass.attempts) :
            lastPass.attempts[k].clicked => lastPass.attempts[k].confirmed

\* The assertion record a stage writes for the target of a resolution site.
RecordOf(site) ==
    CASE site = "activate_search_field" -> "Search Field Click"
      [] site = "wait_for_dropdown"     -> "Auto-suggestion List Visibility"
      [] site = "check_map_icons"       -> "Google Auto Suggestion List Availability Test"
      [] site = "wait_for_picker"       -> "Date Picker Modal Open and Visibility Test"
      [] site = "click_next_month"      -> "Refine Button Date Validation Test"
      [] site = "open_guest_picker"     -> "Guest Picker Open Verification"
      [] site = "click_search"          -> "Search Button Click After Guest Selection"
      [] site = "verify_page_loaded"    -> "Search Results Page Load Verification"
      [] OTHER                          -> "none"

\* C7 (as stated): when every candidate of a pass has failed, the pass ends
\* not-found as a value (the actions have no raising branch in a pass), and
\* the stage has written an assertion record for that target, every such
\* record failing.
C7_MissIsRecordedFailing ==
    lastPass.site # "none" /\ RecordOf(lastPass.site) # "none" /\ ~lastPass.found =>
        /\ RowsOf(testing, RecordOf(lastPass.site)) # {}
        /\ \A i \in RowsOf(testing, RecordOf(lastPass.site)) : ~testing[i].passed

\* C8: in listing scraping and in suggestion harvesting, a routine that returns
\* has tried its secondary extraction exactly when the primary one yielded no
\* item: it returns nothing only after the secondary was tried, and never runs
\* the secondary when the primary yielded an item.
C8_SecondaryIffPrimaryEmpty ==
    extraction.routine # "none" =>
        /\ extraction.primary >= 1 => ~extraction.secondaryTried
        /\ extraction.returned => (extraction.secondaryTried <=> extraction.primary = 0)
        /\ extraction.returned /\ extraction.items = 0 => extraction.secondaryTried

\* C8 witness: the scrape found no structured item and returned the items of
\* the fallback.
C8_Witness ==
    /\ extraction.routine = "scrape_all_listings"
    /\ extraction.returned
    /\ extraction.primary = 0 /\ extraction.secondaryTried /\ extraction.items > 0

\* C9 (as stated): after two detail persists that carry the same non-empty
\* listing_url (and a title, so that both reach the upsert) the table holds
\* exactly one row with that listing_url, whatever it held before.
C9_OneRowPerPersistedUrl ==
    \A i \in 1..Len(persistCalls) : \A j \in 1..Len(persistCalls) :
        /\ i < j
        /\ persistCalls[i].url # << >> /\ persistCalls[i].url = persistCalls[j].url
        /\ persistCalls[i].title # << >> /\ persistCalls[j].title # << >>
        => Cardinality(Matching(listing_data, Trunc(persistCalls[i].url, UrlMax))) = 1

\* C10 (as stated): when stage 5 stored a listing and stage 6 opened that
\* listing and persisted its detail record, the key of the upsert is the
\* listing_url stage 5 stored and the table has no more rows than stage 5 left.
C10_DetailUpdatesStoredRow ==
    /\ Len(returned) = NStages
    /\ persistCalls # << >>
    /\ details.title # << >>
    /\ GoesDirect(listing.listing_url)
    /\ HasRooms(details.url)
    => /\ Trunc(details.url, UrlMax) = listing.listing_url
       /\ Len(listing_data) = Len(listings)

EndRows(table) == RowsOf(table, "Automation Session End")
\* handle() was left by the exception of a stage / by Ctrl+C.
Crashed     == pc = "done" /\ fault = "error"
Interrupted == pc = "done" /\ fault = "interrupt"

C14_BuffersFlushedOnEveryEnd ==
    pc = "done" =>
        /\ console_log = save_console_logs(<< >>, console_logs)
        /\ network_log = save_network_logs(<< >>, network_logs)

\* The failing rows of the end record.
FailingEndRows(table) == { i \in EndRows(table) : ~table[i].passed }

C16_InterruptExitsNonZero == Interrupted => exitStatus # 0

\* C17: a run whose six stages returned and that was not interrupted ends with
\* exit status 0 whatever the verdicts of its records; between two stages the
\* next stage can always be called, and the stage running is the one after the
\* last that returned.
C17_VerdictsDoNotSteer ==
    /\ Completed => Len(returned) = NStages /\ exitStatus = 0
    /\ pc = "journey" /\ Len(returned) < NStages => ENABLED CallStage
    /\ Len(started) > Len(returned) => LastRow(started) = Len(returned) + 1

\* C17 witness: a completed run with failing and passing records of the stages.
C17_Witness ==
    /\ Completed
    /\ exitStatus = 0
    /\ \E i, j \in 1..Len(testing) :
          /\ ~testing[i].passed
          /\ testing[j].passed /\ testing[j].test_case # "Automation Session End"

\* The batched calls of one operation made so far.
BatchesOf(op) == { i \in 1..Len(batchCalls) : batchCalls[i].op = op }
BatchOps == { "save_suggestions", "save_listings", "save_console_logs", "save_network_logs" }

\* C19: in a run each of save_suggestions, save_listings, save_console_logs and
\* save_network_logs is called at most once; save_suggestions is called while
\* stage 2 runs, save_listings while stage 5 runs, and the two log buffers are
\* stored only when all six stages have returned.
C19_BatchesAtMostOnce ==
    /\ \A i \in 1..Len(batchCalls) : batchCalls[i].op \in BatchOps
    /\ \A op \in BatchOps : Cardinality(BatchesOf(op)) <= 1
    /\ \A i \in BatchesOf("save_suggestions") : batchCalls[i].returned = 1
    /\ \A i \in BatchesOf("save_listings") : batchCalls[i].returned = 4
    /\ \A i \in BatchesOf("save_console_logs") \cup BatchesOf("save_network_logs") :
          batchCalls[i].returned = 6
    /\ Len(returned) < 6 => console_log = << >> /\ network_log = << >>

\* C19 witness: a run that made all four batched calls has completed.
C19_Witness ==
    /\ Completed
    /\ \A op \in BatchOps : BatchesOf(op) # {}
    /\ console_log # << >> /\ network_log # << >>

\* C20 (as stated): the failure of typing in stage 1 or of a script of stage 5
\* or 6 makes no exception leave the stage: the stage returns and the run goes
\* on.
C20_FailedActionOnlyDegrades ==
    ~(fault = "error" /\ exc[1] \in {"type", "evaluate"})

\* C18 (as stated): an exception of the recorder never becomes the exception
\* that leaves a stage or _run_journey, and the exception that leaves handle()
\* on the fault path is the one the handler received.
C18_RecorderFailureHarmless ==
    [][ /\ pc' = "raised" /\ pc # "raised" => exc' # StoreErrorText
        /\ pc = "except_exception" => exc' = exc ]_vars

(***************************************************************************)
(* The routines.                                                           *)
(***************************************************************************)
\* The sequence holds no value twice.
NoRepeat(seq) == \A i, j \in 1..Len(seq) : seq[i] = seq[j] => i = j
\* The URLs an img element names in src, data-src, data-original-uri and srcset.
Named(img) ==
    ({ img.src, img.data_src, img.original_uri }
        \cup { img.srcset[k] : k \in 1..Len(img.srcset) }) \ { << >> }

\* C21: the list _collect_gallery_images returns holds every URL at most once,
\* and only URLs that some img element names, however many attributes and
\* elements name the same URL.
C21_GalleryUrlsOnce ==
    lastCall.routine = "collect_gallery_images" =>
        /\ NoRepeat(lastCall.output)
        /\ \A k \in 1..Len(lastCall.output) :
              \E i \in 1..Len(lastCall.input) : lastCall.output[k] \in Named(lastCall.input[i])

\* C21 witness: one URL is the src of one element and in the srcset and the
\* data-original-uri of another, and the list returned holds it.
C21_Witness ==
    /\ lastCall.routine = "collect_gallery_images"
    /\ Len(lastCall.input) = 2
    /\ lastCall.input[1].src = Image1
    /\ lastCall.input[2].original_uri = Image1
    /\ lastCall.input[2].srcset = << Image1, Image2 >>
    /\ lastCall.output = << Image1, Image2 >>

\* q[i..j] is a whitespace-separated token of q.
IsToken(q, i, j) ==
    /\ \A k \in i..j : q[k] \notin WhiteSpace
    /\ i = 1 \/ q[i - 1] \in WhiteSpace
    /\ j = Len(q) \/ q[j + 1] \in WhiteSpace
\* text contains q[i..j] when case is ignored.
HoldsToken(text, q, i, j) ==
    \E o \in 0..(Len(text) - (j - i + 1)) :
        \A k \in 0..(j - i) : LowerChar(text[o + k + 1]) = LowerChar(q[i + k])

\* C22: the relevance record is written once, and it is passing exactly when
\* some harvested text contains, case ignored, some whitespace-separated token
\* of the destination; with no harvested text it is failing.
C22_RelevanceIffTokenFound ==
    lastCall.routine = "relevance" =>
        LET q     == lastCall.input.search_query
            texts == lastCall.input.texts
            rows  == lastCall.output
        IN  /\ Len(rows) = 1
            /\ rows[1].test_case = "Auto-suggestion Relevance Check"
            /\ rows[1].passed <=>
                  \E t \in 1..Len(texts) : \E i \in 1..Len(q) : \E j \in i..Len(q) :
                      IsToken(q, i, j) /\ HoldsToken(texts[t], q, i, j)
            /\ texts = << >> => ~rows[1].passed

\* C22 witness: the second text holds the second token of the destination in
\* the other case, and the record is passing.
C22_Witness ==
    /\ lastCall.routine = "relevance"
    /\ lastCall.input.search_query = << "B", " ", "a" >>
    /\ lastCall.input.texts = << << "b" >>, << "b", "A" >> >>
    /\ lastCall.output[1].passed

\* C23 (as stated): the listing scrape and the suggestion harvest return at
\* most 20 items, from the first level and from the second, however many
\* elements the page holds.
C23_ExtractionCapped ==
    lastCall.routine \in {"scrape_all_listings", "collect_suggestion_texts"} =>
        Len(lastCall.output) <= 20

C25_MethodsAndLevelsRestricted ==
    LET rows == lastCall.output
    IN  /\ lastCall.routine = "save_network_logs" =>
              \A i \in 1..Len(rows) :
                  /\ rows[i].method \in { GET, POST, PUT, DELETE, PATCH, OPTIONS }
                  /\ rows[i].method =
                        IF \E m \in { GET, POST, PUT, DELETE, PATCH, OPTIONS } :
                              Lower(m) = Lower(lastCall.input.method)
                        THEN CHOOSE m \in { GET, POST, PUT, DELETE, PATCH, OPTIONS } :
                                 Lower(m) = Lower(lastCall.input.method)
                        ELSE GET
        /\ lastCall.routine = "save_console_logs" =>
              \A i \in 1..Len(rows) :
                  /\ rows[i].level \in { "INFO", "WARNING", "ERROR", "DEBUG" }
                  /\ rows[i].level =
                        CASE lastCall.input.type = "warning" -> "WARNING"
                          [] lastCall.input.type = "error" -> "ERROR"
                          [] lastCall.input.type = "debug" -> "DEBUG"
                          [] OTHER -> "INFO"

\* C25 witness: a message of a type the listener does not know was stored with
\* level INFO.
C25_Witness ==
    /\ lastCall.routine = "save_console_logs"
    /\ lastCall.input.type = "trace"
    /\ Len(lastCall.output) = 1
    /\ lastCall.output[1].level = "INFO"

\* The click on the candidate of the attempt went through.
ClickLanded(a) == a.landed

\* C26 (as stated): in a resolution pass of stages 1 to 4 no click went through
\* on a candidate that did not yield its target.
C26_NoClickOnFailedCandidate ==
    lastPass.site \in ClickSites =>
        \A k \in 1..Len(lastPass.attempts) :
            ~lastPass.attempts[k].success => ~ClickLanded(lastPass.attempts[k])

\* The record puts the value drawn into its texts: it interpolates the local
\* that holds it, or, for the listing opened, its address is the room page
\* reached.
InEvidence(row, d) ==
    \/ d \in Interpolated(row.test_case)
    \/ /\ d \in {"listing", "pick"}
       /\ row.test_case = "Listing Details Page Load"
       /\ HasRooms(row.url)

\* C27 (as stated): every value a stage that returned drew at random is in the
\* texts of a record that stage wrote.
C27_DecisionsInEvidence ==
    \A j \in 1..Len(returned) :
        \A d \in decisions \cap DrawnBy(returned[j]) :
            \E i \in RowsOfStage(testing, returned[j]) : InEvidence(testing[i], d)

\* C28 (as stated): in a resolution pass a candidate that failed is not probed
\* again, and a stepper attempt that failed is the last attempt of _add_guests.
C28_FailedAttemptNotRepeated ==
    lastPass.site \in ClickSites =>
        \A k \in 1..Len(lastPass.attempts) :
            ~lastPass.attempts[k].success =>
                /\ \A m \in (k + 1)..Len(lastPass.attempts) :
                       lastPass.attempts[m].cand # lastPass.attempts[k].cand
                /\ lastPass.site = "add_guests" => k = Len(lastPass.attempts)

\* The records of table "testing" when the end record of this run was written.
StoreAtEnd ==
    LET n == CHOOSE k \in 1..Len(testing) : testing[k].test_case = "Automation Session End"
    IN  earlier \o SubSeq(testing, 1, n)

\* C29: the counts of the final summary add up, the run has written its passing
\* end record by then, and total is the number of records the table holds at
\* that moment, those of earlier runs included.
C29_SummaryCountsTheStore ==
    summary # NoSummary =>
        /\ summary.total = summary.passed + summary.failed
        /\ \E k \in 1..Len(testing) :
               testing[k].test_case = "Automation Session End" /\ testing[k].passed
        /\ summary.total = Len(StoreAtEnd)
        /\ summary.passed = Cardinality({ i \in 1..Len(StoreAtEnd) : StoreAtEnd[i].passed })

\* C29 witness: a summary printed over a table that held rows of earlier runs,
\* so that total exceeds the number of records this run wrote.
C29_Witness ==
    /\ summary # NoSummary
    /\ earlier # << >>
    /\ summary.total > Len(testing)
    /\ summary.failed >= 1
    /\ pc = "done"

\* C30 (as stated): when stage 3 has selected both dates, the check-out day is
\* after the check-in day.
C30_CheckoutAfterCheckin ==
    dates.checkin # NoDate /\ dates.checkout # NoDate => dates.checkout > dates.checkin

\* The click on a day went through: some selector gave available days and
\* nothing raised up to and including day.click().
DayClicked(p) ==
    /\ \E i \in 1..NDaySels : ~p.sels[i].err /\ p.sels[i].days # << >>
    /\ p.click

\* C31: in the result of stage 3 a date is there exactly when the click on its
\* day went through (a day whose click raised leaves none), and the date
\* record passes exactly when both dates are there.
C31_DatesIffClicked ==
    lastCall.routine = "select_dates" =>
        LET out == lastCall.output
        IN  /\ out.checkin # NoDate <=> DayClicked(lastCall.input[1])
            /\ out.checkout # NoDate <=> DayClicked(lastCall.input[2])
            /\ out.record[1].passed <=> (out.checkin # NoDate /\ out.checkout # NoDate)

\* C31 witness: the check-in click went through on a day without a date text,
\* the check-out click raised on a listed day; the record fails.
C31_Witness ==
    /\ lastCall.routine = "select_dates"
    /\ lastCall.output.checkin = EmptyDate
    /\ get_available_days(lastCall.input[2].sels) # << >>
    /\ ~lastCall.input[2].click
    /\ lastCall.output.checkout = NoDate
    /\ ~lastCall.output.record[1].passed

PickerNotOpened ==
    /\ Len(returned) >= 4
    /\ \E i \in RowsOf(testing, "Guest Picker Open Verification") : ~testing[i].passed

\* C33: when the guest picker could not be opened, stage 4 has written one
\* record, a failing one, has returned 0 and has made no pass over the Search
\* button selectors; the call of the next stage is enabled on its return and
\* the stage started next is stage 5.
C33_NoPickerNoSearch ==
    PickerNotOpened =>
        /\ Cardinality(RowsOfStage(testing, 4)) = 1
        /\ \A i \in RowsOfStage(testing, 4) : ~testing[i].passed
        /\ guests = 0
        /\ Len(started) = 4 /\ fault = "none" =>
               /\ lastPass.site = "open_guest_picker"
               /\ ~lastPass.found
               /\ pc = "journey"
               /\ ENABLED CallStage
        /\ Len(started) >= 5 => started[5] = 5

\* C33 witness: stage 5 is running after a stage 4 that could not open the
\* guest picker.
C33_Witness ==
    /\ PickerNotOpened
    /\ Len(started) = 5
    /\ Len(returned) = 4
    /\ pc \notin {"journey", "raised"}
    /\ Cardinality(RowsOfStage(testing, 4)) = 1


\* Stage 1 returned without a search field: its failing record is in the table.
SearchFieldMissed ==
    /\ Len(returned) >= 1
    /\ \E i \in RowsOf(testing, "Search Field Click") : ~testing[i].passed

\* C34: the country stage 1 returns is one of the twenty listed countries, also
\* when no search field was found and nothing was typed; on that path the stage
\* has written exactly one 'Search Field Click' record, a failing one, and no
\* record of an input, and stage 2 is the stage called next, with that country.
C34_CountryAlwaysListed ==
    /\ Len(returned) >= 1 => \E k \in 1..Len(TOP_20_COUNTRIES) : country = TOP_20_COUNTRIES[k]
    /\ Len(TOP_20_COUNTRIES) = 20
    /\ SearchFieldMissed =>
          /\ Cardinality(RowsOf(testing, "Search Field Click")) = 1
          /\ RowsOf(testing, "Search Field Input") = {}
          /\ Cardinality(RowsOfStage(testing, 1)) = 2
          /\ Len(started) >= 2 => started[2] = 2
          /\ Len(started) = 1 /\ fault = "none" => pc = "journey" /\ ENABLED CallStage

C34_Witness ==
    /\ SearchFieldMissed
    /\ Len(started) >= 2
    /\ started[2] = 2
    /\ RowsOfStage(testing, 2) # {}
    /\ RowsOf(testing, "Search Field Input") = {}


\* The passing rows of the end record.
PassingEndRows(table) == { i \in EndRows(table) : table[i].passed }

\* C35 (as stated): when handle() has ended, by completion, by an exception or
\* by Ctrl+C, table "testing" holds exactly one end record of the run; a passing
\* end record exists only after the six stages returned and the log buffers were
\* flushed; no run holds a passing and a failing end record.
C35_OneEndRecordPerRun ==
    /\ pc = "done" => Cardinality(EndRows(testing)) = 1
    /\ PassingEndRows(testing) # {} =>
          /\ Len(returned) = NStages
          /\ pc \notin {"journey", "flushed"}
          /\ console_log = save_console_logs(<< >>, console_logs)
          /\ network_logs # << >> => network_log # << >>
    /\ ~(PassingEndRows(testing) # {} /\ FailingEndRows(testing) # {})


\* The handles of a session that are held.
Held(session) == { h \in {"pw", "browser", "context", "page"} : session[h] = "held" }

\* C36 (as stated): for every combination of closes that raise, __exit__ has
\* closed the browser and stopped Playwright unless their own close raised, in
\* particular when closing the context or the browser raised, and no exception
\* leaves __exit__.
C36_TeardownReleasesAll ==
    lastCall.routine = "browser_exit" =>
        /\ ~lastCall.output.raised
        /\ "browser" \notin lastCall.input => lastCall.output.session.browser = "closed"
        /\ "pw" \notin lastCall.input => lastCall.output.session.pw = "closed"

\* C37 (as stated): when a call of __enter__ after the start of Playwright
\* raises, no handle acquired before it is still held when the exception
\* reaches handle().
C37_PartialAcquisitionReleased ==
    lastCall.routine = "browser_enter" /\ lastCall.output.raised =>
        Held(lastCall.output.session) = {}


\* C38 (as stated): when a run has completed, every console and network event
\* appended to the buffers before the with block was left is in its table once,
\* in order: also the events appended after the buffers were stored.
C38_LateEventsPersistedOnce ==
    Completed =>
        /\ network_log = save_network_logs(<< >>, network_logs)
        /\ console_log = save_console_logs(<< >>, console_logs)


\* C39 (as stated): a _persist call whose key matches one row of the table
\* changes only the title and the image URL of that row: its price stays the
\* one stage 5 stored, its listing_url and every other row stay as they were and
\* no row is added; a _persist call with an empty title leaves the table as it
\* was.
C39_UpsertKeepsPrice ==
    [][ Len(persistCalls') = Len(persistCalls) + 1 =>
          LET result == LastRow(persistCalls')
              m      == Matching(listing_data, Trunc(result.url, UrlMax))
          IN  /\ result.title = << >> => listing_data' = listing_data
              /\ result.title # << >> /\ Cardinality(m) = 1 =>
                    /\ Len(listing_data') = Len(listing_data)
                    /\ \A i \in 1..Len(listing_data) :
                          /\ listing_data'[i].price = listing_data[i].price
                          /\ listing_data'[i].listing_url = listing_data[i].listing_url
                          /\ i \notin m => listing_data'[i] = listing_data[i] ]_vars

=============================================================================
